---------------------------- MODULE Spec2Model ----------------------------
(***************************************************************************)
(* Traffic-driven scale-to-zero controller (testapp, testapp-ebpf).        *)
(*                                                                         *)
(* The user-space program is a set of tokio tasks that share the registry  *)
(* WATCHED_SERVICES and the rate-limit map LAST_CALLED behind mutexes.     *)
(* A task gives up control only at an await on a cluster call, a channel   *)
(* read or a sleep, so one action of this model is the code of one task    *)
(* from one suspension point to the next; the effect of a cluster call on  *)
(* the cluster happens together with the return of the call.  The clock    *)
(* is the wall clock in whole seconds; any amount of time may pass while   *)
(* a task is suspended.  The machine has one online CPU, hence one reader  *)
(* task on the event channel.                                              *)
(*                                                                         *)
(* Option<T> is modelled as a sequence: None is << >>, Some(x) is <<x>>.   *)
(* A target string is modelled by the result of split('/') on it.          *)
(***************************************************************************)
EXTENDS Integers, Sequences, FiniteSets, TLC

(***************************************************************************)
(* Bounds of the model.                                                    *)
(***************************************************************************)
MaxQueue == 1
MaxTasks == 1

(***************************************************************************)
(* Program constants.                                                      *)
(***************************************************************************)
RATE_LIMIT_SECS == 5
SWEEP_PERIOD_SECS == 1
RECREATE_DELAY_SECS == 10
STABILIZATION_SECS == 2
REGISTER_DELAY_SECS == 2
HPA_DELETE_WAIT_SECS == 2
ETH_HDR_LEN == 14
IPV4_HDR_LEN == 20
MAX_ENTRIES == 1024

None == << >>
Some(x) == <<x>>
IsSome(o) == Len(o) = 1
Unwrap(o) == o[1]

(***************************************************************************)
(* IPv4 addresses: text, octets and the 32-bit big-endian integer.         *)
(***************************************************************************)
IP_P == "10.0.0.1"
IP_C == "10.0.0.2"
IP_X == "10.0.0.3"
IP_OTHER == "10.0.0.9"
IP_LOOP == "127.0.0.1"
AddrTexts == {IP_P, IP_C, IP_X, IP_OTHER, IP_LOOP}

\* k.parse::<Ipv4Addr>() on the address texts of the model
ParseIpv4(s) ==
    CASE s = IP_P -> <<10, 0, 0, 1>>
      [] s = IP_C -> <<10, 0, 0, 2>>
      [] s = IP_X -> <<10, 0, 0, 3>>
      [] s = IP_OTHER -> <<10, 0, 0, 9>>
      [] s = IP_LOOP -> <<127, 0, 0, 1>>

\* u32::from_be_bytes / Ipv4Addr -> u32
ToU32(o) == ((o[1] * 256 + o[2]) * 256 + o[3]) * 256 + o[4]

\* Ipv4Addr::from(u32)
FromU32(n) == <<(n \div 16777216) % 256, (n \div 65536) % 256, (n \div 256) % 256, n % 256>>

\* Ipv4Addr::to_string
ToText(o) == CHOOSE s \in AddrTexts : ParseIpv4(s) = o

\* Ipv4Addr::is_loopback: 127.0.0.0/8
IsLoopback(o) == o[1] = 127

IpKey(s) == ToU32(ParseIpv4(s))

(***************************************************************************)
(* Kernel classifier (testapp-ebpf).  A frame is its length, its           *)
(* EtherType and the addresses of its IPv4 header.                         *)
(***************************************************************************)
XDP_ABORTED == "XDP_ABORTED"
XDP_DROP == "XDP_DROP"
XDP_PASS == "XDP_PASS"

\* ptr_at: the header at offset, of length len, lies within the packet
PtrAtOk(frame, offset, len) == ~(offset + len > frame.len)

\* is_scalable_dst
IsScalableDst(map, address) ==
    IF address \in DOMAIN map THEN Some(map[address]) ELSE None

PacketLog(addr, act) == [ipv4_address |-> addr, action |-> act]

\* mutant of try_testapp: the test on the stored value is inverted
TryTestappInverted(map, frame) ==
    IF ~PtrAtOk(frame, 0, ETH_HDR_LEN) THEN [verdict |-> XDP_ABORTED, out |-> << >>]
    ELSE IF frame.ether_type # "Ipv4" THEN [verdict |-> XDP_PASS, out |-> << >>]
    ELSE IF ~PtrAtOk(frame, ETH_HDR_LEN, IPV4_HDR_LEN) THEN [verdict |-> XDP_ABORTED, out |-> << >>]
    ELSE LET dst == ToU32(frame.dst)
             found == IsScalableDst(map, dst)
         IN  IF IsSome(found)
             THEN IF Unwrap(found) # 0
                  THEN [verdict |-> XDP_DROP, out |-> <<PacketLog(dst, 1)>>]
                  ELSE [verdict |-> XDP_PASS, out |-> <<PacketLog(dst, 0)>>]
             ELSE [verdict |-> XDP_PASS, out |-> << >>]

\* try_testapp with the wrapper testapp: the verdict and the records written to SCALE_REQUESTS
TryTestapp(map, frame) ==
    IF ~PtrAtOk(frame, 0, ETH_HDR_LEN) THEN [verdict |-> XDP_ABORTED, out |-> << >>]
    ELSE IF frame.ether_type # "Ipv4" THEN [verdict |-> XDP_PASS, out |-> << >>]
    ELSE IF ~PtrAtOk(frame, ETH_HDR_LEN, IPV4_HDR_LEN) THEN [verdict |-> XDP_ABORTED, out |-> << >>]
    ELSE LET dst == ToU32(frame.dst)
             found == IsScalableDst(map, dst)
         IN  IF IsSome(found)
             THEN IF Unwrap(found) = 0
                  THEN [verdict |-> XDP_DROP, out |-> <<PacketLog(dst, 1)>>]
                  ELSE [verdict |-> XDP_PASS, out |-> <<PacketLog(dst, 0)>>]
             ELSE [verdict |-> XDP_PASS, out |-> << >>]

(***************************************************************************)
(* ServiceData and the annotations it is built from.                       *)
(***************************************************************************)
\* mutant of calculate_scaling_priority: the dependents are looked at first
CalculateScalingPriorityDependentsFirst(ann) ==
    IF IsSome(ann.scaling_priority) THEN Unwrap(ann.scaling_priority)
    ELSE IF Len(ann.dependents) > 0 THEN 90 + Len(ann.dependents) * 5
    ELSE IF Len(ann.dependencies) > 0 THEN 10 + Len(ann.dependencies) * 5
    ELSE 50

\* calculate_scaling_priority; scaling_priority is the parsed annotation, if it parses
CalculateScalingPriority(ann) ==
    IF IsSome(ann.scaling_priority) THEN Unwrap(ann.scaling_priority)
    ELSE IF Len(ann.dependencies) > 0 THEN 10 + Len(ann.dependencies) * 5
    ELSE IF Len(ann.dependents) > 0 THEN 90 + Len(ann.dependents) * 5
    ELSE 50

\* mutant of update_workload_status: no HPAConfig is read from the annotations
AnnotatedHpaConfigNone(ann) == None

\* update_workload_status: the HPAConfig read from the annotations
AnnotatedHpaConfig(ann) ==
    IF ann.hpa_enabled
    THEN Some([min_replicas |-> ann.min_replicas,
               max_replicas |-> IF IsSome(ann.max_replicas) THEN Unwrap(ann.max_replicas) ELSE 5,
               target_cpu_utilization_percentage |-> ann.target_cpu,
               metrics |-> None,
               behavior |-> None])
    ELSE None

\* update_workload_status: the ServiceData inserted for a service
NewServiceData(ann, reps, t) ==
    [scale_down_time |-> ann.scale_down_time,
     last_packet_time |-> t,
     kind |-> ann.kind,
     name |-> ann.name,
     namespace |-> ann.namespace,
     backend_available |-> (reps >= 1),
     dependencies |-> ann.dependencies,
     dependents |-> ann.dependents,
     hpa_enabled |-> ann.hpa_enabled,
     hpa_name |-> IF ann.hpa_enabled THEN Some(ann.hpa_name) ELSE None,
     hpa_deleted |-> FALSE,
     hpa_config |-> AnnotatedHpaConfig(ann),
     scaling_priority |-> CalculateScalingPriority(ann)]

Workload(svc) == <<svc.kind, svc.namespace, svc.name>>
HpaKey(svc) == <<svc.namespace, Unwrap(svc.hpa_name)>>

(***************************************************************************)
(* Target resolution.                                                      *)
(***************************************************************************)
\* is_match of update_service_by_target and find_service_ip_by_target
IsMatch(svc, target) ==
    IF Len(target) > 1
    THEN IF Len(target) = 2
         THEN svc.name = target[2] /\ svc.namespace = target[1]
         ELSE FALSE
    ELSE svc.name = target[1]

\* services.get(target): the whole target string is a key of the registry
IsKey(reg, target) == Len(target) = 1 /\ target[1] \in DOMAIN reg

\* the entries update_service_by_target writes
TargetsOf(reg, target) ==
    IF IsKey(reg, target) THEN {target[1]}
    ELSE {ip \in DOMAIN reg : IsMatch(reg[ip], target)}

\* mutant of update_service_by_target: the legacy rule is applied to every relationship
UpdateServiceByTargetLegacy(reg, target, t, rel) ==
    [ip \in DOMAIN reg |->
        IF ip \in TargetsOf(reg, target)
        THEN IF reg[ip].hpa_enabled /\ ~reg[ip].backend_available
             THEN reg[ip]
             ELSE [reg[ip] EXCEPT !.last_packet_time = t]
        ELSE reg[ip]]

\* update_service_by_target
UpdateServiceByTarget(reg, target, t, rel) ==
    [ip \in DOMAIN reg |->
        IF ip \in TargetsOf(reg, target)
        THEN IF rel = "dependency" \/ rel = "dependent"
             THEN [reg[ip] EXCEPT !.last_packet_time = t]
             ELSE IF reg[ip].hpa_enabled /\ ~reg[ip].backend_available
                  THEN reg[ip]
                  ELSE [reg[ip] EXCEPT !.last_packet_time = t]
        ELSE reg[ip]]

RECURSIVE UpdateAll(_, _, _, _)
UpdateAll(reg, targets, t, rel) ==
    IF targets = << >> THEN reg
    ELSE UpdateAll(UpdateServiceByTarget(reg, Head(targets), t, rel), Tail(targets), t, rel)

\* mutant of process_packet: the entries named by the lists of the stamped entries are
\* stamped as well
StampRegistryTwoHops(reg, ip, t) ==
    IF ip \in DOMAIN reg
    THEN LET named(m) ==
                 UNION {TargetsOf(reg, reg[m].dependencies[i]) : i \in 1..Len(reg[m].dependencies)}
                 \cup UNION {TargetsOf(reg, reg[m].dependents[i]) : i \in 1..Len(reg[m].dependents)}
             one == {ip} \cup named(ip)
             two == one \cup UNION {named(m) : m \in one}
         IN  [q \in DOMAIN reg |->
                 IF q \in two THEN [reg[q] EXCEPT !.last_packet_time = t] ELSE reg[q]]
    ELSE reg

\* process_packet, the registry section: the entry, its dependencies, its dependents
StampRegistry(reg, ip, t) ==
    IF ip \in DOMAIN reg
    THEN LET r1 == [reg EXCEPT ![ip].last_packet_time = t]
             r2 == UpdateAll(r1, reg[ip].dependencies, t, "dependency")
         IN  UpdateAll(r2, reg[ip].dependents, t, "dependent")
    ELSE reg

(***************************************************************************)
(* sort_by_key is a stable sort.                                           *)
(***************************************************************************)
RECURSIVE InsertAsc(_, _)
InsertAsc(s, e) ==
    IF s = << >> THEN <<e>>
    ELSE IF Head(s).prio <= e.prio THEN <<Head(s)>> \o InsertAsc(Tail(s), e)
    ELSE <<e>> \o s

RECURSIVE InsertDesc(_, _)
InsertDesc(s, e) ==
    IF s = << >> THEN <<e>>
    ELSE IF Head(s).prio >= e.prio THEN <<Head(s)>> \o InsertDesc(Tail(s), e)
    ELSE <<e>> \o s

RECURSIVE SortAsc(_)
SortAsc(s) == IF s = << >> THEN << >> ELSE InsertAsc(SortAsc(SubSeq(s, 1, Len(s) - 1)), s[Len(s)])

RECURSIVE SortDesc(_)
SortDesc(s) == IF s = << >> THEN << >> ELSE InsertDesc(SortDesc(SubSeq(s, 1, Len(s) - 1)), s[Len(s)])

\* the orders in which a HashMap may iterate over the keys S
RECURSIVE Orders(_)
Orders(S) == IF S = {} THEN {<< >>} ELSE UNION {{<<x>> \o o : o \in Orders(S \ {x})} : x \in S}


(***************************************************************************)
(* The services of the cluster, by cluster IP: what the annotations of     *)
(* each service say.                                                       *)
(***************************************************************************)
Ann(k, n, sdt, deps, dpts, prio, hpa) ==
    [kind |-> k, name |-> n, namespace |-> "ns1", scale_down_time |-> sdt,
     dependencies |-> deps, dependents |-> dpts, scaling_priority |-> prio,
     hpa_enabled |-> hpa, hpa_name |-> n \o "-hpa",
     min_replicas |-> Some(1), max_replicas |-> None, target_cpu |-> Some(80)]

\* parent P (priority 10, dependencies = [C]) and child C (priority 95)
ParentChild(target, sdtP, sdtC, hpaP, hpaC) ==
    (IP_P :> Ann("deployment", "p", sdtP, <<target>>, << >>, Some(10), hpaP))
    @@ (IP_C :> Ann("statefulset", "c", sdtC, << >>, << >>, Some(95), hpaC))

\* service P alone, with no relations and no priority annotation
Solo(sdt, hpa) == (IP_P :> Ann("deployment", "p", sdt, << >>, << >>, None, hpa))

\* P and C with an unrelated service X that sorts before both
WithX(cat, sdtX) ==
    cat @@ (IP_X :> Ann("deployment", "x", sdtX, << >>, << >>, Some(5), FALSE))

VARIABLES
    now,         \* the clock, in seconds
    horizon,     \* the time at which the model stops the clock
    catalog,     \* the annotated services of the cluster, by cluster IP
    services,    \* WATCHED_SERVICES
    lastCalled,  \* LAST_CALLED
    kmap,        \* SERVICE_LIST, the kernel map
    events,      \* SCALE_REQUESTS, the records not yet read
    xdp,         \* the last frame classified and its verdict
    replicas,    \* the cluster: spec.replicas of each workload
    hpas,        \* the cluster: the autoscaler objects
    lastPatch,   \* history: the replicas of the last patch issued for each workload
    pump,        \* the reader task: process_packet and scale_up
    upLog,       \* history: the patches of the current scale_up call
    calls,       \* history: the times of the last accepted and the last rejected scale_up call, by IP
    sweep,       \* the scale_down task
    downLog,     \* history: the patches of the current sweep
    recon,       \* the reconciler task
    tasks        \* the spawned autoscaler recreation tasks

vars == <<now, horizon, catalog, services, lastCalled, kmap, events, xdp, replicas, hpas,
          lastPatch, pump, upLog, calls, sweep, downLog, recon, tasks>>

PumpIdle(res) == [pc |-> "idle", ip |-> "", to_scale |-> << >>, idx |-> 0, clone |-> None, res |-> res]
SweepSleeping(t) == [pc |-> "sleep", due |-> t, list |-> << >>, idx |-> 0, now |-> 0, hclone |-> None, hcfg |-> None]
ReconIdle == [pc |-> "idle", ip |-> "", replicas |-> 0, due |-> 0]

\* the HorizontalPodAutoscaler spec an operator has given the autoscaler of a service
UserHpaSpec ==
    [min_replicas |-> Some(2), max_replicas |-> 4,
     metrics |-> Some(<<[type |-> "Resource", name |-> "cpu", average_utilization |-> Some(70)]>>),
     behavior |-> None]

\* The state once the reconciler has registered the services regd of cat at time 0, reps
\* giving the replicas of each workload and hp the autoscaler objects that exist.
InitWith(cat, regd, reps, hp, h) ==
    /\ now = 0
    /\ horizon = h
    /\ catalog = cat
    /\ services = [ip \in regd |-> NewServiceData(cat[ip], reps[ip], 0)]
    /\ lastCalled = << >>
    /\ kmap = << >>
    /\ events = << >>
    /\ xdp = [frame |-> None, verdict |-> XDP_PASS, out |-> << >>]
    /\ replicas = [w \in {Workload(cat[ip]) : ip \in DOMAIN cat} |->
                      LET ip == CHOOSE i \in DOMAIN cat : Workload(cat[i]) = w IN reps[ip]]
    /\ hpas = hp
    /\ lastPatch = [w \in {Workload(cat[ip]) : ip \in DOMAIN cat} |-> None]
    /\ pump = PumpIdle(<< >>)
    /\ upLog = << >>
    /\ calls = << >>
    /\ sweep = SweepSleeping(0)
    /\ downLog = << >>
    /\ recon = ReconIdle
    /\ tasks = {}

(***************************************************************************)
(* The clock.                                                              *)
(***************************************************************************)
Tick ==
    /\ now < horizon
    /\ now' = now + 1
    /\ UNCHANGED <<horizon, catalog, calls, services, lastCalled, kmap, events, xdp, replicas, hpas,
                   lastPatch, pump, upLog, sweep, downLog, recon, tasks>>

(***************************************************************************)
(* The kernel: one frame classified by testapp.                            *)
(***************************************************************************)
Frame(l, et, dstText) == [len |-> l, ether_type |-> et, dst |-> ParseIpv4(dstText)]

Classify(frame) ==
    LET r == TryTestapp(kmap, frame) IN
    /\ Len(events) + Len(r.out) <= MaxQueue
    /\ events' = events \o r.out
    /\ xdp' = [frame |-> Some(frame), verdict |-> r.verdict, out |-> r.out]
    /\ UNCHANGED <<now, horizon, catalog, calls, services, lastCalled, kmap, replicas, hpas,
                   lastPatch, pump, upLog, sweep, downLog, recon, tasks>>

(***************************************************************************)
(* sync_data: the kernel map is brought in line with the registry.         *)
(***************************************************************************)
\* scalable_service_list.insert: a new key needs room in the map
MapInsert(map, k, v) ==
    IF k \in DOMAIN map THEN [map EXCEPT ![k] = v]
    ELSE IF Cardinality(DOMAIN map) < MAX_ENTRIES THEN map @@ (k :> v)
    ELSE map

\* get_local_service_list / the pod_ips of sync_data
PodIps(reg) ==
    [k \in {IpKey(ip) : ip \in DOMAIN reg} |->
        LET ip == CHOOSE i \in DOMAIN reg : IpKey(i) = k
        IN  IF reg[ip].backend_available THEN 1 ELSE 0]

\* the first loop of sync_data, over the keys ks of pod_ips
RECURSIVE Upsert(_, _, _)
Upsert(map, pod_ips, ks) ==
    IF ks = << >> THEN map
    ELSE LET key == Head(ks)
             value == pod_ips[key]
             next == IF key \in DOMAIN map
                     THEN IF map[key] # value THEN MapInsert(map, key, value) ELSE map
                     ELSE MapInsert(map, key, value)
         IN  Upsert(next, pod_ips, Tail(ks))

\* the second loop of sync_data: keys of the map that pod_ips does not hold are removed
RemoveStale(map, pod_ips) ==
    [k \in {x \in DOMAIN map : x \in DOMAIN pod_ips} |-> map[k]]

\* mutant of sync_data: a key found in the map is left as it is
SyncDataNoUpdate(map, reg) ==
    LET pod_ips == PodIps(reg)
        added == [k \in DOMAIN map \cup DOMAIN pod_ips |->
                     IF k \in DOMAIN map THEN map[k] ELSE pod_ips[k]]
    IN  RemoveStale(added, pod_ips)

\* sync_data
SyncData(map, reg) ==
    LET pod_ips == PodIps(reg)
        order == CHOOSE o \in Orders(DOMAIN pod_ips) : TRUE
    IN  RemoveStale(Upsert(map, pod_ips, order), pod_ips)

Sync ==
    /\ kmap' = SyncData(kmap, services)
    /\ UNCHANGED <<now, horizon, catalog, calls, services, lastCalled, events, xdp, replicas, hpas,
                   lastPatch, pump, upLog, sweep, downLog, recon, tasks>>


(***************************************************************************)
(* The packet pump: process_packet and scale_up, run by the reader task.   *)
(***************************************************************************)
RATE_LIMIT_MSG ==
    <<"Rate", "Limited:", "Function", "can", "only", "be", "called", "once", "every",
      "5", "seconds", "per", "service_ip">>
RATE_LIMIT_PREFIX == <<"Rate", "Limited:", "Function">>

\* err.to_string().starts_with("Rate Limited: Function "): the words, and a space after them
StartsWithRateLimited(msg) ==
    /\ Len(msg) > Len(RATE_LIMIT_PREFIX)
    /\ SubSeq(msg, 1, Len(RATE_LIMIT_PREFIX)) = RATE_LIMIT_PREFIX

\* mutant of the rate limit of scale_up: the window is a single second
RateLimitedShort(called, ip, t) ==
    /\ ip \in DOMAIN called
    /\ t - called[ip] < 1

\* scale_up: the call is within the window of the last call recorded for the IP
RateLimited(called, ip, t) ==
    /\ ip \in DOMAIN called
    /\ t - called[ip] < RATE_LIMIT_SECS

Put(f, k, v) == IF k \in DOMAIN f THEN [f EXCEPT ![k] = v] ELSE f @@ (k :> v)

\* mutant of scale_up: the time of the call is not recorded
RecordCallNever(called, ip, t) == called

\* mutant of scale_up: the time of a rejected call is recorded too
RecordCallAlways(called, ip, t) == Put(called, ip, t)

\* scale_up: LAST_CALLED after the rate-limit section
RecordCall(called, ip, t) ==
    IF RateLimited(called, ip, t) THEN called ELSE Put(called, ip, t)

\* history: what is known of the scale_up calls for an IP
Called(log, ip) == IF ip \in DOMAIN log THEN log[ip] ELSE [accepted |-> None, rejected |-> None]

Entry(ip, svc) == [ip |-> ip, prio |-> svc.scaling_priority]

\* find_service_ip_by_target: the key itself, else the first match in the iteration order
\* of the map, which may be any of the matches
FindServiceIpByTarget(reg, target) ==
    IF IsKey(reg, target) THEN {target[1]}
    ELSE {ip \in DOMAIN reg : IsMatch(reg[ip], target)}

RECURSIVE AddTargets(_, _, _)
AddTargets(reg, lists, targets) ==
    IF targets = << >> THEN lists
    ELSE LET found == FindServiceIpByTarget(reg, Head(targets))
             next == IF found = {} THEN lists
                     ELSE {IF ~reg[d].backend_available THEN Append(l, Entry(d, reg[d])) ELSE l :
                              l \in lists, d \in found}
         IN  AddTargets(reg, next, Tail(targets))

\* scale_up, step 1: the lists services_to_scale may be
ServicesToScale(reg, ip) ==
    AddTargets(reg,
               AddTargets(reg, {<<Entry(ip, reg[ip])>>}, reg[ip].dependencies),
               reg[ip].dependents)

\* mutant of scale_up, step 2: the list is sorted by ascending priority
ScaleUpOrderAsc(list) == SortAsc(list)

\* scale_up, step 2: sort_by_key(Reverse(scaling_priority))
ScaleUpOrder(list) == SortDesc(list)

\* scale_service_by_ip up to the patch: the entry is cloned and marked available
StartEntry(p, i, reg) ==
    [p EXCEPT !.pc = "patch", !.idx = i,
              !.clone = Some([reg[p.to_scale[i].ip] EXCEPT !.backend_available = TRUE])]

\* mutant of scale_service_by_ip: the entry is written back as it was cloned
WrittenBackUnmarked(reg, ip, svc) ==
    IF ip \in DOMAIN reg THEN [reg EXCEPT ![ip] = [svc EXCEPT !.backend_available = reg[ip].backend_available]]
    ELSE reg

\* scale_service_by_ip, the write-back: *service_to_update = service
WrittenBack(reg, ip, svc) ==
    IF ip \in DOMAIN reg THEN [reg EXCEPT ![ip] = svc] ELSE reg

\* mutant of scale_service_by_ip: the spawned task does not sleep
NewTaskAtOnce(ip, t) ==
    [ip |-> ip, pc |-> "delay", due |-> t, clone |-> None, wrapper |-> TRUE]

\* the task spawned by scale_service_by_ip: it calls the wrapper after 10 seconds
NewTask(ip, t) ==
    [ip |-> ip, pc |-> "delay", due |-> t + RECREATE_DELAY_SECS, clone |-> None, wrapper |-> TRUE]

\* One record is read from the channel: process_packet, and for action 1 scale_up up to
\* its first patch.
PumpPacket ==
    /\ pump.pc = "idle"
    /\ events # << >>
    /\ events' = Tail(events)
    /\ LET ev == Head(events)
           addr == FromU32(ev.ipv4_address)
           ip == ToText(addr)
           reg == StampRegistry(services, ip, now)
       IN  IF IsLoopback(addr)
           THEN UNCHANGED <<services, lastCalled, pump, upLog, calls>>
           ELSE /\ services' = reg
                /\ IF ev.action # 1
                   THEN UNCHANGED <<lastCalled, pump, upLog, calls>>
                   ELSE /\ lastCalled' = RecordCall(lastCalled, ip, now)
                        /\ IF RateLimited(lastCalled, ip, now)
                           THEN /\ pump' = PumpIdle(RATE_LIMIT_MSG)
                                /\ calls' = Put(calls, ip, [Called(calls, ip) EXCEPT !.rejected = Some(now)])
                                /\ UNCHANGED upLog
                           ELSE /\ upLog' = << >>
                                /\ calls' = Put(calls, ip, [Called(calls, ip) EXCEPT !.accepted = Some(now)])
                                /\ IF ip \notin DOMAIN reg
                                   THEN pump' = [PumpIdle(<< >>) EXCEPT !.pc = "dead"]
                                   ELSE \E list \in ServicesToScale(reg, ip) :
                                           pump' = StartEntry([PumpIdle(<< >>) EXCEPT
                                                                  !.ip = ip,
                                                                  !.to_scale = ScaleUpOrder(list)],
                                                              1, reg)
    /\ UNCHANGED <<now, horizon, catalog, kmap, xdp, replicas, hpas, lastPatch,
                   sweep, downLog, recon, tasks>>

\* The patch to replicas = 1 returns: the recreation task is spawned, the entry written
\* back, and the task sleeps 500 ms.
PumpPatched ==
    /\ pump.pc = "patch"
    /\ LET e == pump.to_scale[pump.idx]
           svc == Unwrap(pump.clone)
           w == Workload(svc)
       IN  /\ replicas' = [replicas EXCEPT ![w] = 1]
           /\ lastPatch' = [lastPatch EXCEPT ![w] = Some(1)]
           /\ upLog' = Append(upLog, e)
           /\ IF svc.hpa_enabled
              THEN /\ tasks' = tasks \cup {NewTask(e.ip, now)}
                   /\ Cardinality(tasks') <= MaxTasks
              ELSE UNCHANGED tasks
           /\ services' = WrittenBack(services, e.ip, svc)
           /\ pump' = [pump EXCEPT !.pc = "sleep", !.clone = None]
    /\ UNCHANGED <<now, horizon, catalog, calls, lastCalled, kmap, events, xdp, hpas,
                   sweep, downLog, recon>>

\* The 500 ms are over: the next entry of the list, or the end of scale_up.
PumpNext ==
    /\ pump.pc = "sleep"
    /\ IF pump.idx < Len(pump.to_scale)
       THEN pump' = StartEntry(pump, pump.idx + 1, services)
       ELSE pump' = PumpIdle(<<"Ok">>)
    /\ UNCHANGED <<now, horizon, catalog, calls, services, lastCalled, kmap, events, xdp,
                   replicas, hpas, lastPatch, upLog, sweep, downLog, recon, tasks>>


(***************************************************************************)
(* The autoscaler suspension controller.                                   *)
(***************************************************************************)
\* serde_json::to_string / from_str of a metrics or behavior value
ToJson(v) == <<"json", v>>
FromJson(j) == IF Len(j) = 2 /\ j[1] = "json" THEN Some(j[2]) ELSE None

\* delete_hpa: the first Resource metric on cpu gives the CPU target
CpuTarget(metrics) ==
    IF ~IsSome(metrics) THEN None
    ELSE LET ms == Unwrap(metrics)
             hit == {i \in 1..Len(ms) : ms[i].type = "Resource" /\ ms[i].name = "cpu"}
         IN  IF hit = {} THEN None
             ELSE ms[CHOOSE i \in hit : \A j \in hit : i <= j].average_utilization

\* delete_hpa: the HPAConfig captured from the spec of the object
CaptureConfig(spec) ==
    [min_replicas |-> spec.min_replicas,
     max_replicas |-> spec.max_replicas,
     target_cpu_utilization_percentage |-> CpuTarget(spec.metrics),
     metrics |-> IF IsSome(spec.metrics) THEN Some(ToJson(Unwrap(spec.metrics))) ELSE None,
     behavior |-> IF IsSome(spec.behavior) THEN Some(ToJson(Unwrap(spec.behavior))) ELSE None]

\* recreate_hpa: the spec built from an HPAConfig
BuildHpaSpec(config) ==
    LET cpuOnly == IF IsSome(config.target_cpu_utilization_percentage)
                   THEN Some(<<[type |-> "Resource", name |-> "cpu",
                                average_utilization |-> config.target_cpu_utilization_percentage]>>)
                   ELSE None
        custom == IF IsSome(config.metrics) THEN FromJson(Unwrap(config.metrics)) ELSE None
        behavior == IF IsSome(config.behavior) THEN FromJson(Unwrap(config.behavior)) ELSE None
    IN  [min_replicas |-> config.min_replicas,
         max_replicas |-> config.max_replicas,
         metrics |-> IF IsSome(custom) THEN custom ELSE cpuOnly,
         behavior |-> behavior]

\* mutant of delete_hpa_for_service: delete_hpa is never called
DeleteCallsNever(reg, ip) == FALSE

\* delete_hpa_for_service: the conditions under which delete_hpa is called
DeleteCalls(reg, ip) ==
    /\ ip \in DOMAIN reg
    /\ reg[ip].hpa_enabled
    /\ ~reg[ip].hpa_deleted
    /\ IsSome(reg[ip].hpa_name)

\* mutant of recreate_hpa_for_service: recreate_hpa is called for available entries only
RecreateCallsIfAvailable(reg, ip) ==
    /\ ip \in DOMAIN reg
    /\ reg[ip].hpa_enabled
    /\ IsSome(reg[ip].hpa_name)
    /\ IsSome(reg[ip].hpa_config)
    /\ reg[ip].backend_available

\* recreate_hpa_for_service: the conditions under which recreate_hpa is called
RecreateCalls(reg, ip) ==
    /\ ip \in DOMAIN reg
    /\ reg[ip].hpa_enabled
    /\ IsSome(reg[ip].hpa_name)
    /\ IsSome(reg[ip].hpa_config)

\* mutant of the wrappers: the entry is taken out of the registry
InsertedRemoves(reg, ip, svc) == [x \in DOMAIN reg \ {ip} |-> reg[x]]

\* mutant of the wrappers: the entry is not stored
InsertedNothing(reg, ip, svc) == reg

\* watched_services.insert(service_ip, service_data) of the wrappers
Inserted(reg, ip, svc) == Put(reg, ip, svc)

Remove(f, k) == [x \in DOMAIN f \ {k} |-> f[x]]

(***************************************************************************)
(* The scale-down pump.                                                    *)
(***************************************************************************)
SnapEntry(ip, svc) == [ip |-> ip, prio |-> svc.scaling_priority, svc |-> svc]

\* mutant of scale_down: the snapshot is sorted by descending priority
SweepOrderDesc(list) == SortDesc(list)

\* scale_down: sort_by_key(scaling_priority)
SweepOrder(list) == SortAsc(list)

\* mutant of scale_down: an entry idle for exactly scale_down_time is idle enough
IsIdleAtThreshold(svc, t) ==
    /\ t - svc.last_packet_time >= svc.scale_down_time
    /\ svc.backend_available

\* scale_down: now - last_packet_time > idle_minutes && service.backend_available
IsIdle(svc, t) ==
    /\ t - svc.last_packet_time > svc.scale_down_time
    /\ svc.backend_available

\* scale_down: the loop from entry i on, up to the next await or to the sleep of one
\* second; now is read for each entry, and the entry is the copy of the snapshot.
RECURSIVE SweepFrom(_, _, _, _)
SweepFrom(list, i, reg, t) ==
    IF i > Len(list)
    THEN [pc |-> "sleep", due |-> t + SWEEP_PERIOD_SECS, list |-> << >>, idx |-> 0,
          now |-> 0, hclone |-> None, hcfg |-> None]
    ELSE LET ip == list[i].ip
             svc == list[i].svc
             at == [pc |-> "sleep", due |-> 0, list |-> list, idx |-> i, now |-> t,
                    hclone |-> None, hcfg |-> None]
         IN  IF svc.hpa_enabled /\ ~svc.backend_available /\ ~svc.hpa_deleted
             THEN IF DeleteCalls(reg, ip)
                  THEN [at EXCEPT !.pc = "o_get", !.hclone = Some(reg[ip])]
                  ELSE SweepFrom(list, i + 1, reg, t)
             ELSE IF IsIdle(svc, t)
             THEN IF svc.hpa_enabled /\ ~svc.hpa_deleted /\ DeleteCalls(reg, ip)
                  THEN [at EXCEPT !.pc = "d_get", !.hclone = Some(reg[ip])]
                  ELSE [at EXCEPT !.pc = "patch"]
             ELSE SweepFrom(list, i + 1, reg, t)

\* mutant of scale_down: after delete_hpa_for_service the loop goes on to the next entry
AfterDeleteSkips(sw, reg, t) == SweepFrom(sw.list, sw.idx + 1, reg, t)

\* after delete_hpa_for_service: the orphan branch goes on to the next entry (its entry
\* is not available, so the idle test fails), the idle branch goes on to the patch
AfterDelete(sw, reg, t) ==
    IF sw.pc \in {"o_get", "o_del"}
    THEN SweepFrom(sw.list, sw.idx + 1, reg, t)
    ELSE [sw EXCEPT !.pc = "patch", !.hclone = None, !.hcfg = None]

\* The sleep of one second is over: the snapshot, the sort, and the loop up to its
\* first await.
SweepStart ==
    /\ sweep.pc = "sleep"
    /\ now >= sweep.due
    /\ \E order \in Orders(DOMAIN services) :
          LET snap == [i \in 1..Len(order) |-> SnapEntry(order[i], services[order[i]])]
          IN  sweep' = SweepFrom(SweepOrder(snap), 1, services, now)
    /\ downLog' = << >>
    /\ UNCHANGED <<now, horizon, catalog, calls, services, lastCalled, kmap, events, xdp,
                   replicas, hpas, lastPatch, pump, upLog, recon, tasks>>

\* delete_hpa: the get returns.  An object that is not there makes delete_hpa return
\* Ok(None), and the wrapper marks the entry; an object that is there is captured and
\* its delete is issued.
SweepHpaGet ==
    /\ sweep.pc \in {"o_get", "d_get"}
    /\ LET ip == sweep.list[sweep.idx].ip
           clone == Unwrap(sweep.hclone)
           key == HpaKey(clone)
       IN  IF key \in DOMAIN hpas
           THEN /\ sweep' = [sweep EXCEPT !.pc = IF sweep.pc = "o_get" THEN "o_del" ELSE "d_del",
                                          !.hcfg = Some(CaptureConfig(hpas[key]))]
                /\ UNCHANGED services
           ELSE /\ services' = Inserted(services, ip, [clone EXCEPT !.hpa_deleted = TRUE])
                /\ sweep' = AfterDelete(sweep, services', now)
    /\ UNCHANGED <<now, horizon, catalog, calls, lastCalled, kmap, events, xdp, replicas, hpas,
                   lastPatch, pump, upLog, downLog, recon, tasks>>

\* delete_hpa: the delete returns, and the wrapper stores the captured configuration.
SweepHpaDeleted ==
    /\ sweep.pc \in {"o_del", "d_del"}
    /\ LET ip == sweep.list[sweep.idx].ip
           clone == Unwrap(sweep.hclone)
       IN  /\ hpas' = Remove(hpas, HpaKey(clone))
           /\ services' = Inserted(services, ip,
                                   [clone EXCEPT !.hpa_deleted = TRUE, !.hpa_config = sweep.hcfg])
           /\ sweep' = AfterDelete(sweep, services', now)
    /\ UNCHANGED <<now, horizon, catalog, calls, lastCalled, kmap, events, xdp, replicas,
                   lastPatch, pump, upLog, downLog, recon, tasks>>

\* The patch to replicas = 0 returns: the copy of the snapshot, marked unavailable, is
\* written back, and the loop goes on.
SweepPatched ==
    /\ sweep.pc = "patch"
    /\ LET e == sweep.list[sweep.idx]
           svc == [e.svc EXCEPT !.backend_available = FALSE]
           w == Workload(svc)
       IN  /\ replicas' = [replicas EXCEPT ![w] = 0]
           /\ lastPatch' = [lastPatch EXCEPT ![w] = Some(0)]
           /\ downLog' = Append(downLog, [ip |-> e.ip, prio |-> e.prio])
           /\ services' = [services EXCEPT ![e.ip] = svc]
           /\ sweep' = SweepFrom(sweep.list, sweep.idx + 1, services', now)
    /\ UNCHANGED <<now, horizon, catalog, calls, lastCalled, kmap, events, xdp, hpas,
                   pump, upLog, recon, tasks>>

(***************************************************************************)
(* The autoscaler recreation tasks spawned by scale_service_by_ip.         *)
(***************************************************************************)
Replace(S, old, new) == (S \ {old}) \cup {new}

\* The 10 seconds are over: recreate_hpa_for_service clones the entry and recreate_hpa
\* issues its get.
TaskStart(task) ==
    /\ task \in tasks
    /\ task.pc = "delay"
    /\ now >= task.due
    /\ IF RecreateCalls(services, task.ip)
       THEN tasks' = Replace(tasks, task, [task EXCEPT !.pc = "get", !.clone = Some(services[task.ip])])
       ELSE tasks' = tasks \ {task}
    /\ UNCHANGED <<now, horizon, catalog, calls, services, lastCalled, kmap, events, xdp,
                   replicas, hpas, lastPatch, pump, upLog, sweep, downLog, recon>>

\* recreate_hpa: the get returns; an object that exists is deleted first.
TaskGet(task) ==
    /\ task \in tasks
    /\ task.pc = "get"
    /\ IF HpaKey(Unwrap(task.clone)) \in DOMAIN hpas
       THEN tasks' = Replace(tasks, task, [task EXCEPT !.pc = "del"])
       ELSE tasks' = Replace(tasks, task, [task EXCEPT !.pc = "create"])
    /\ UNCHANGED <<now, horizon, catalog, calls, services, lastCalled, kmap, events, xdp,
                   replicas, hpas, lastPatch, pump, upLog, sweep, downLog, recon>>

\* recreate_hpa: the delete returns, and the task sleeps 2 seconds.
TaskDeleted(task) ==
    /\ task \in tasks
    /\ task.pc = "del"
    /\ hpas' = Remove(hpas, HpaKey(Unwrap(task.clone)))
    /\ tasks' = Replace(tasks, task, [task EXCEPT !.pc = "wait", !.due = now + HPA_DELETE_WAIT_SECS])
    /\ UNCHANGED <<now, horizon, catalog, calls, services, lastCalled, kmap, events, xdp,
                   replicas, lastPatch, pump, upLog, sweep, downLog, recon>>

\* recreate_hpa: the 2 seconds are over, the create is issued.
TaskWaited(task) ==
    /\ task \in tasks
    /\ task.pc = "wait"
    /\ now >= task.due
    /\ tasks' = Replace(tasks, task, [task EXCEPT !.pc = "create"])
    /\ UNCHANGED <<now, horizon, catalog, calls, services, lastCalled, kmap, events, xdp,
                   replicas, hpas, lastPatch, pump, upLog, sweep, downLog, recon>>

\* recreate_hpa: the create returns.  It fails when an object of that name exists; when
\* it succeeds the wrapper, if the task runs one, writes the clone back with
\* hpa_deleted = false.
TaskCreated(task) ==
    /\ task \in tasks
    /\ task.pc = "create"
    /\ LET clone == Unwrap(task.clone)
           key == HpaKey(clone)
       IN  IF key \in DOMAIN hpas
           THEN UNCHANGED <<hpas, services>>
           ELSE /\ hpas' = hpas @@ (key :> BuildHpaSpec(Unwrap(clone.hpa_config)))
                /\ IF task.wrapper
                   THEN services' = Inserted(services, task.ip, [clone EXCEPT !.hpa_deleted = FALSE])
                   ELSE UNCHANGED services
    /\ tasks' = tasks \ {task}
    /\ UNCHANGED <<now, horizon, catalog, calls, lastCalled, kmap, events, xdp,
                   replicas, lastPatch, pump, upLog, sweep, downLog, recon>>

(***************************************************************************)
(* The reconciler: kube_event_watcher handles one event at a time.         *)
(***************************************************************************)
\* the task spawned by update_workload_status: it calls recreate_hpa at once
InitialTask(ip, svc) == [ip |-> ip, pc |-> "get", due |-> 0, clone |-> Some(svc), wrapper |-> FALSE]

\* A service event: the workload of the reference annotation is read, and
\* update_workload_status sleeps 2 seconds.
ReconService(ip) ==
    /\ recon.pc = "idle"
    /\ ip \in DOMAIN catalog
    /\ recon' = [pc |-> "register", ip |-> ip, replicas |-> replicas[Workload(catalog[ip])],
                 due |-> now + REGISTER_DELAY_SECS]
    /\ UNCHANGED <<now, horizon, catalog, calls, services, lastCalled, kmap, events, xdp,
                   replicas, hpas, lastPatch, pump, upLog, sweep, downLog, tasks>>

\* update_workload_status after its sleep: the entry is inserted, and the first
\* autoscaler of an autoscaled service that has replicas is created by a spawned task.
ReconRegister ==
    /\ recon.pc = "register"
    /\ now >= recon.due
    /\ LET svc == NewServiceData(catalog[recon.ip], recon.replicas, now)
       IN  /\ services' = Put(services, recon.ip, svc)
           /\ IF svc.hpa_enabled /\ recon.replicas >= 1
                 /\ IsSome(svc.hpa_name) /\ IsSome(svc.hpa_config)
              THEN /\ tasks' = tasks \cup {InitialTask(recon.ip, svc)}
                   /\ Cardinality(tasks') <= MaxTasks
              ELSE UNCHANGED tasks
    /\ recon' = ReconIdle
    /\ UNCHANGED <<now, horizon, catalog, calls, lastCalled, kmap, events, xdp,
                   replicas, hpas, lastPatch, pump, upLog, sweep, downLog>>

\* A deployment or stateful-set event, process_resource up to its sleep: the service
\* bound to the workload and the replicas of the object of the event
ReconEvent(ip) ==
    /\ recon.pc = "idle"
    /\ ip \in DOMAIN services
    /\ recon' = [pc |-> "stabilize", ip |-> ip, replicas |-> replicas[Workload(catalog[ip])],
                 due |-> now + STABILIZATION_SECS]
    /\ UNCHANGED <<now, horizon, catalog, calls, services, lastCalled, kmap, events, xdp,
                   replicas, hpas, lastPatch, pump, upLog, sweep, downLog, tasks>>

\* mutant of process_resource: the entry is stamped as well
ReconApplyStamps ==
    /\ recon.pc = "stabilize"
    /\ now >= recon.due
    /\ services' = [services EXCEPT ![recon.ip].backend_available = (recon.replicas >= 1),
                                    ![recon.ip].last_packet_time = now]
    /\ recon' = ReconIdle
    /\ UNCHANGED <<now, horizon, catalog, calls, lastCalled, kmap, events, xdp,
                   replicas, hpas, lastPatch, pump, upLog, sweep, downLog, tasks>>

\* process_resource after its sleep: backend_available = replicas >= 1
ReconApply ==
    /\ recon.pc = "stabilize"
    /\ now >= recon.due
    /\ services' = [services EXCEPT ![recon.ip].backend_available = (recon.replicas >= 1)]
    /\ recon' = ReconIdle
    /\ UNCHANGED <<now, horizon, catalog, calls, lastCalled, kmap, events, xdp,
                   replicas, hpas, lastPatch, pump, upLog, sweep, downLog, tasks>>


(***************************************************************************)
(* Steps of the tasks.                                                     *)
(***************************************************************************)
PumpStep == PumpPacket \/ PumpPatched \/ PumpNext
SweepStep == SweepStart \/ SweepHpaGet \/ SweepHpaDeleted \/ SweepPatched
TaskStep == \E task \in tasks :
    TaskStart(task) \/ TaskGet(task) \/ TaskDeleted(task) \/ TaskWaited(task) \/ TaskCreated(task)

HpaOf(cat, ip) == <<cat[ip].namespace, cat[ip].hpa_name>>

\* the autoscaler objects that may exist at the start: one for any autoscaled service
HpaChoices(cat) ==
    LET auto == {ip \in DOMAIN cat : cat[ip].hpa_enabled}
    IN  {[k \in {HpaOf(cat, ip) : ip \in S} |-> UserHpaSpec] : S \in SUBSET auto}

(***************************************************************************)
(* The kernel path: frames of every shape are classified while services    *)
(* are registered, woken up and mirrored into the kernel map.              *)
(***************************************************************************)
FrameLens == {10, 20, 60}
EtherTypes == {"Ipv4", "Arp"}
XdpFrames == {Frame(l, et, d) : l \in FrameLens, et \in EtherTypes, d \in {IP_P, IP_C, IP_OTHER}}

InitXdp ==
    \E reps \in [{IP_P, IP_C} -> {0, 1}] :
        InitWith(ParentChild(<<"c">>, 1, 1, FALSE, FALSE), {IP_P, IP_C}, reps, << >>, 0)

NextXdp ==
    \/ \E frame \in XdpFrames : Classify(frame)
    \/ Sync
    \/ PumpStep

SpecXdp == InitXdp /\ [][NextXdp]_vars

HeadersFit(frame) == frame.len >= ETH_HDR_LEN + IPV4_HDR_LEN

\* C1: in every state the classifier decides on a frame whose headers lie within the
\* packet from the value the kernel map stores for its destination alone: an IPv4 frame
\* with no key is passed with no record, with value 0 it is dropped with exactly one
\* record {dst, action 1}, with the other value the map holds, 1, it is passed with one
\* record {dst, action 0}; a frame that is not IPv4 is passed with no record.
ClassifierTable ==
    \A frame \in XdpFrames :
        HeadersFit(frame) =>
            LET dst == ToU32(frame.dst)
                r == TryTestapp(kmap, frame)
            IN  IF frame.ether_type # "Ipv4"
                THEN r.verdict = XDP_PASS /\ r.out = << >>
                ELSE IF dst \notin DOMAIN kmap
                THEN r.verdict = XDP_PASS /\ r.out = << >>
                ELSE IF kmap[dst] = 0
                THEN r.verdict = XDP_DROP /\ r.out = <<[ipv4_address |-> dst, action |-> 1]>>
                ELSE /\ kmap[dst] = 1
                     /\ r.verdict = XDP_PASS
                     /\ r.out = <<[ipv4_address |-> dst, action |-> 0]>>

\* a frame for cold P has been dropped and its record is in the channel
ClassifierDropped ==
    /\ xdp.frame = Some(Frame(60, "Ipv4", IP_P))
    /\ xdp.verdict = XDP_DROP
    /\ events = <<[ipv4_address |-> 167772161, action |-> 1]>>

(***************************************************************************)
(* The mirror: P is registered, C is registered later, services are woken  *)
(* up, and sync_data keeps the kernel map in line.                         *)
(***************************************************************************)
SyncHorizon == 2
ServiceFrames == {Frame(60, "Ipv4", IP_P), Frame(60, "Ipv4", IP_C)}

InitSync ==
    \E reps \in [{IP_P, IP_C} -> {0, 1}] :
        InitWith(ParentChild(<<"c">>, 1, 1, FALSE, FALSE), {IP_P}, reps, << >>, SyncHorizon)

NextSync ==
    \/ Tick
    \/ \E frame \in ServiceFrames : Classify(frame)
    \/ Sync
    \/ PumpStep
    \/ \E ip \in DOMAIN catalog : ReconService(ip)
    \/ ReconRegister

SpecSync == InitSync /\ [][NextSync]_vars

\* C4: in every state a pass of sync_data over the registry as it is would leave the
\* kernel map equal to {ip as u32 : backend_available as 0/1} over the registry entries,
\* every key of the kernel map is the address of a registry entry, and every value of
\* the kernel map is 0 or 1.
KernelMapMirrors ==
    /\ LET after == SyncData(kmap, services)
       IN  /\ DOMAIN after = {IpKey(ip) : ip \in DOMAIN services}
           /\ \A ip \in DOMAIN services :
                 after[IpKey(ip)] = IF services[ip].backend_available THEN 1 ELSE 0
    /\ \A k \in DOMAIN kmap : \E ip \in DOMAIN services : IpKey(ip) = k
    /\ \A k \in DOMAIN kmap : kmap[k] \in {0, 1}

\* the kernel map has held 0 for P and a pass of sync_data has turned it to 1, and C,
\* registered after the start, has been added to it
KernelMapUpdated ==
    /\ calls # << >>
    /\ IP_C \in DOMAIN services
    /\ DOMAIN kmap = {IpKey(IP_P), IpKey(IP_C)}
    /\ kmap[IpKey(IP_P)] = 1
    /\ IsSome(lastPatch[Workload(services[IP_P])])

(***************************************************************************)
(* The rate limit: packets for cold P and C over more than one window.     *)
(***************************************************************************)
RateHorizon == 6

InitRate ==
    \E reps \in [{IP_P, IP_C} -> {0, 1}] :
        InitWith(ParentChild(<<"c">>, 1, 1, FALSE, FALSE), {IP_P, IP_C}, reps, << >>, RateHorizon)

NextRate ==
    \/ Tick
    \/ \E frame \in ServiceFrames : Classify(frame)
    \/ Sync
    \/ PumpStep

SpecRate == InitRate /\ [][NextRate]_vars

\* the reader takes a record with action 1 from the channel: scale_up is called
ScaleUpCalled ==
    /\ pump.pc = "idle"
    /\ events # << >>
    /\ events' = Tail(events)
    /\ Head(events).action = 1

CalledIp == ToText(FromU32(Head(events).ipv4_address))

\* C5: a scale_up call for an IP made less than 5 seconds after the last accepted call
\* for that IP returns an error that begins with "Rate Limited: Function ", patches no
\* workload and changes nothing in the registry (but for the last_packet_time stamps of
\* process_packet) nor in LAST_CALLED; a call for an IP with no accepted call in the last
\* 5 seconds goes on to its first patch, whatever has been called for other IPs.
RateLimitPerIp ==
    [][ScaleUpCalled =>
          LET last == Called(calls, CalledIp).accepted IN
          IF IsSome(last) /\ now - Unwrap(last) < 5
          THEN /\ pump'.pc = "idle"
               /\ StartsWithRateLimited(pump'.res)
               /\ replicas' = replicas
               /\ lastPatch' = lastPatch
               /\ lastCalled' = lastCalled
               /\ upLog' = upLog
               /\ DOMAIN services' = DOMAIN services
               /\ \A i \in DOMAIN services :
                     [services'[i] EXCEPT !.last_packet_time = services[i].last_packet_time]
                         = services[i]
          ELSE /\ pump'.pc = "patch"
               /\ pump'.ip = CalledIp]_vars

\* a call for P has been rejected inside the window of P, after a call for C was
\* accepted inside that window
RateLimitRejected ==
    /\ StartsWithRateLimited(pump.res)
    /\ IP_P \in DOMAIN calls
    /\ IP_C \in DOMAIN calls
    /\ calls[IP_P] = [accepted |-> Some(0), rejected |-> Some(3)]
    /\ calls[IP_C].accepted = Some(2)
    /\ now = 3

\* C6: LAST_CALLED holds for an IP the time of the last accepted scale_up call for it
\* and nothing else: a rejected call leaves the window where it was.
WindowFromLastAccepted ==
    \A ip \in DOMAIN calls \cup DOMAIN lastCalled :
        /\ ip \in DOMAIN lastCalled <=> IsSome(Called(calls, ip).accepted)
        /\ ip \in DOMAIN lastCalled => lastCalled[ip] = Unwrap(Called(calls, ip).accepted)

\* calls for P at 0, at 3 and at 6: the one at 3 was rejected, the one at 6 accepted
ThirdCallAccepted ==
    /\ IP_P \in DOMAIN calls
    /\ calls[IP_P] = [accepted |-> Some(6), rejected |-> Some(3)]
    /\ lastCalled[IP_P] = 6
    /\ pump.pc = "patch"

(***************************************************************************)
(* The two pumps together: packets wake P and C up while the sweep scales  *)
(* idle entries down.                                                      *)
(***************************************************************************)
CoreHorizon == 3

InitCore ==
    \E reps \in [{IP_P, IP_C} -> {0, 1}] :
        InitWith(ParentChild(<<"c">>, 1, 1, FALSE, FALSE), {IP_P, IP_C}, reps, << >>, CoreHorizon)

NextCore ==
    \/ Tick
    \/ \E frame \in ServiceFrames : Classify(frame)
    \/ Sync
    \/ PumpStep
    \/ SweepStart
    \/ SweepPatched

SpecCore == InitCore /\ [][NextCore]_vars

NonIncreasing(log) == \A i, j \in 1..Len(log) : i < j => log[i].prio >= log[j].prio
NonDecreasing(log) == \A i, j \in 1..Len(log) : i < j => log[i].prio <= log[j].prio

\* C7: the patches to replicas = 1 of one scale_up call are issued one after the other
\* in the order of the sorted list, which is by non-increasing scaling_priority; a call
\* for P that finds P and C cold patches C (95) and then P (10); and when the call
\* returns every entry it patched has backend_available = true, unless the sweep has
\* patched its workload to 0 since.
ScaleUpChildrenFirst ==
    /\ NonIncreasing(upLog)
    /\ NonIncreasing(pump.to_scale)
    /\ pump.pc \in {"patch", "sleep"} =>
          /\ Len(upLog) = IF pump.pc = "patch" THEN pump.idx - 1 ELSE pump.idx
          /\ upLog = SubSeq(pump.to_scale, 1, Len(upLog))
    /\ (pump.pc \in {"patch", "sleep"} /\ pump.ip = IP_P /\ Len(pump.to_scale) = 2) =>
          pump.to_scale = <<[ip |-> IP_C, prio |-> 95], [ip |-> IP_P, prio |-> 10]>>
    /\ (pump.pc = "idle" /\ pump.res = <<"Ok">>) =>
          \A i \in 1..Len(upLog) :
              \/ services[upLog[i].ip].backend_available
              \/ lastPatch[Workload(services[upLog[i].ip])] = Some(0)

\* a call for cold P with cold C has returned: C was patched, then P, and both are
\* available
ChildThenParentUp ==
    /\ pump.pc = "idle"
    /\ pump.res = <<"Ok">>
    /\ upLog = <<[ip |-> IP_C, prio |-> 95], [ip |-> IP_P, prio |-> 10]>>
    /\ services[IP_P].backend_available
    /\ services[IP_C].backend_available
    /\ replicas = [w \in DOMAIN replicas |-> 1]

\* C8: within one sweep the entries are visited in the order of the sorted snapshot,
\* which is by non-decreasing scaling_priority, and the patches to replicas = 0 are
\* issued in that order.
SweepParentsFirst ==
    /\ NonDecreasing(sweep.list)
    /\ NonDecreasing(downLog)
    /\ sweep.pc = "patch" =>
          \A i \in 1..Len(downLog) : downLog[i].prio <= sweep.list[sweep.idx].prio

\* one sweep has scaled down P (10) and then C (95)
ParentThenChildDown ==
    /\ downLog = <<[ip |-> IP_P, prio |-> 10], [ip |-> IP_C, prio |-> 95]>>
    /\ replicas = [w \in DOMAIN replicas |-> 0]

\* C10 as stated: no step replaces the last_packet_time of a registry entry by an
\* older one.
LastPacketTimeNeverDecreases ==
    [][\A ip \in DOMAIN services :
          services'[ip].last_packet_time >= services[ip].last_packet_time]_vars

(***************************************************************************)
(* An autoscaled service: P alone, with an autoscaler that the sweep       *)
(* deletes before it scales P down, while the reconciler follows the       *)
(* workload.                                                               *)
(***************************************************************************)
HpaHorizon == 2

InitHpa ==
    \E cat \in {Solo(1, TRUE)} :
    \E reps \in [DOMAIN cat -> {0, 1}] :
    \E hp \in HpaChoices(cat) :
        InitWith(cat, DOMAIN cat, reps, hp, HpaHorizon)

NextHpa ==
    \/ Tick
    \/ Classify(Frame(60, "Ipv4", IP_P))
    \/ Sync
    \/ PumpStep
    \/ SweepStep
    \/ \E ip \in DOMAIN catalog : ReconEvent(ip)
    \/ ReconApply

SpecHpa == InitHpa /\ [][NextHpa]_vars

\* C3 as stated: an entry whose workload the controller has patched is available if and
\* only if the last patch set replicas >= 1.
AvailableIffLastPatchUp ==
    \A ip \in DOMAIN services :
        LET last == lastPatch[Workload(services[ip])]
        IN  IsSome(last) => (services[ip].backend_available <=> Unwrap(last) >= 1)

(***************************************************************************)
(* Steady traffic for the parent: P, C and an unrelated idle service X are *)
(* up, and in every second a packet for P is processed before the clock    *)
(* moves on.                                                               *)
(***************************************************************************)
WarmHorizon == 4

InitWarm ==
    InitWith(WithX(ParentChild(<<"c">>, 2, 2, FALSE, FALSE), 0), {IP_P, IP_C, IP_X},
             [ip \in {IP_P, IP_C, IP_X} |-> 1], << >>, WarmHorizon)

\* the clock moves on only once process_packet has run for a packet of P in this second
WarmTick ==
    /\ services[IP_P].last_packet_time = now
    /\ events = << >>
    /\ Tick

NextWarm ==
    \/ WarmTick
    \/ Classify(Frame(60, "Ipv4", IP_P))
    \/ Sync
    \/ PumpStep
    \/ SweepStart
    \/ SweepPatched

SpecWarm == InitWarm /\ [][NextWarm]_vars

\* C9 as stated: with a packet for P in every second and scale_down_time = 2 for P and
\* C, neither P nor C is patched to replicas = 0.
ParentAndChildStayUp ==
    /\ lastPatch[Workload(services[IP_P])] # Some(0)
    /\ lastPatch[Workload(services[IP_C])] # Some(0)

(***************************************************************************)
(* Wake-up: packets for P alone, which the sweep scales down after one     *)
(* idle second, while the reconciler follows the workload.  The sync loop, *)
(* the reader and the sweep run for ever; packets and workload events      *)
(* arrive or not, and no packet arrives from the horizon on.               *)
(***************************************************************************)
WakeHorizon == 3

InitWake ==
    \E reps \in [{IP_P} -> {0, 1}] :
        InitWith(Solo(1, FALSE), {IP_P}, reps, << >>, WakeHorizon)

\* a packet for P arrives
WakePacket ==
    /\ now < horizon
    /\ Classify(Frame(60, "Ipv4", IP_P))

NextWake ==
    \/ Tick
    \/ WakePacket
    \/ Sync
    \/ PumpStep
    \/ SweepStart
    \/ SweepPatched
    \/ ReconEvent(IP_P)
    \/ ReconApply

SpecWake ==
    /\ InitWake
    /\ [][NextWake]_vars
    /\ WF_vars(Sync)
    /\ WF_vars(PumpStep)
    /\ WF_vars(SweepStart \/ SweepPatched)

\* a packet for P has been dropped and its record, with action 1, is the next to be read
WakeUpPending ==
    /\ events # << >>
    /\ Head(events) = [ipv4_address |-> IpKey(IP_P), action |-> 1]

\* no scale_up call for P has been accepted in the last 5 seconds
OutsideWindow ==
    LET last == Called(calls, IP_P).accepted
    IN  ~IsSome(last) \/ now - Unwrap(last) >= 5

PatchedUp ==
    /\ services[IP_P].backend_available
    /\ replicas[Workload(services[IP_P])] = 1
    /\ lastPatch[Workload(services[IP_P])] = Some(1)

LifeHorizon == 4

InitLife ==
    \E reps \in [{IP_P} -> {0, 1}] :
    \E hp \in HpaChoices(Solo(0, TRUE)) :
        InitWith(Solo(0, TRUE), {IP_P}, reps, hp, LifeHorizon)

NextLife ==
    \/ Tick
    \/ Classify(Frame(60, "Ipv4", IP_P))
    \/ Sync
    \/ PumpStep
    \/ SweepStep
    \/ \E task \in tasks : TaskGet(task) \/ TaskDeleted(task) \/ TaskWaited(task) \/ TaskCreated(task)
    \/ ReconService(IP_P)
    \/ ReconRegister

SpecLife == InitLife /\ [][NextLife]_vars

\* C11: in every state every registry entry with hpa_deleted = true has an hpa_config.
HpaDeletedHasConfig ==
    \A ip \in DOMAIN services :
        services[ip].hpa_deleted => IsSome(services[ip].hpa_config)

\* the sweep has found P scaled down with its autoscaler in place, has deleted the
\* autoscaler and has stored the configuration captured from it
HpaDeletedWithCaptured ==
    /\ services[IP_P].hpa_deleted
    /\ services[IP_P].hpa_config = Some(CaptureConfig(UserHpaSpec))
    /\ hpas = << >>

\* C12 as stated: in every state every registry entry with hpa_deleted = true has
\* hpa_enabled = true, and its autoscaler object does not exist.
HpaDeletedMeansNoObject ==
    \A ip \in DOMAIN services :
        services[ip].hpa_deleted =>
            /\ services[ip].hpa_enabled
            /\ HpaKey(services[ip]) \notin DOMAIN hpas

(***************************************************************************)
(* Suspension and recreation of an autoscaler: P alone, up and with the    *)
(* autoscaler an operator gave it, falls idle and is scaled down by the    *)
(* sweep, is woken up by a packet, and has its autoscaler recreated by the *)
(* task that scale-up spawns.                                              *)
(***************************************************************************)
RoundHorizon == 11

InitRound ==
    InitWith(Solo(0, TRUE), {IP_P}, [ip \in {IP_P} |-> 1],
             (HpaOf(Solo(0, TRUE), IP_P) :> UserHpaSpec), RoundHorizon)

\* a packet for P arrives; none arrives once a scale_up call for P has been accepted
RoundPacket ==
    /\ IP_P \notin DOMAIN lastCalled
    /\ Classify(Frame(60, "Ipv4", IP_P))

NextRound ==
    \/ Tick
    \/ RoundPacket
    \/ Sync
    \/ PumpStep
    \/ SweepStep
    \/ TaskStep

SpecRound == InitRound /\ [][NextRound]_vars

\* C13 as stated: when a sweep has deleted the autoscaler of P and patched P to
\* replicas = 0, the entry of P has hpa_deleted = true at the end of that sweep.
SweptEntryMarkedDeleted ==
    (/\ sweep.pc = "sleep"
     /\ downLog = <<[ip |-> IP_P, prio |-> 50]>>
     /\ hpas = << >>
     /\ lastPatch[Workload(services[IP_P])] = Some(0))
        => services[IP_P].hpa_deleted

\* C14 as stated: the autoscaler of P, be it the one the operator gave P or one recreated
\* after the sweep suspended that one, has the min_replicas, the max_replicas, the CPU
\* target, the metrics and the behavior of the autoscaler the operator gave P.
RecreatedAsCaptured ==
    \A key \in DOMAIN hpas :
        /\ hpas[key].min_replicas = UserHpaSpec.min_replicas
        /\ hpas[key].max_replicas = UserHpaSpec.max_replicas
        /\ CpuTarget(hpas[key].metrics) = CpuTarget(UserHpaSpec.metrics)
        /\ hpas[key].metrics = UserHpaSpec.metrics
        /\ hpas[key].behavior = UserHpaSpec.behavior

(***************************************************************************)
(* Errors: a patch of the cluster client or a read of the event channel    *)
(* returns an error.                                                        *)
(***************************************************************************)
\* mutant of scale_up: an entry that fails ends the traversal with its error
AfterFailureAborts(p, reg) == PumpIdle(<<"Err">>)

\* scale_up, step 3, after scale_service_by_ip has returned an error: the error is
\* logged and the loop goes on with the next entry, without the sleep of 500 ms
AfterFailure(p, reg) ==
    IF p.idx < Len(p.to_scale)
    THEN StartEntry(p, p.idx + 1, reg)
    ELSE PumpIdle(<<"Ok">>)

\* The patch to replicas = 1 returns an error: scale_service_by_ip returns it before it
\* spawns the recreation task and before its write-back.
PumpPatchFailed ==
    /\ pump.pc = "patch"
    /\ pump' = AfterFailure(pump, services)
    /\ UNCHANGED <<now, horizon, catalog, calls, services, lastCalled, kmap, events, xdp,
                   replicas, hpas, lastPatch, upLog, sweep, downLog, recon, tasks>>

\* read_events returns an error: the unwrap panics and the reader task ends.
PumpReadFailed ==
    /\ pump.pc = "idle"
    /\ pump' = [PumpIdle(<<"read_events", "Err">>) EXCEPT !.pc = "dead"]
    /\ UNCHANGED <<now, horizon, catalog, calls, services, lastCalled, kmap, events, xdp,
                   replicas, hpas, lastPatch, upLog, sweep, downLog, recon, tasks>>

\* mutant of scale_down: the copy marked unavailable is written back though the patch
\* has returned an error
SweepPatchFailedWritesBack ==
    /\ sweep.pc = "patch"
    /\ LET e == sweep.list[sweep.idx]
       IN  services' = [services EXCEPT ![e.ip] = [e.svc EXCEPT !.backend_available = FALSE]]
    /\ sweep' = [SweepSleeping(0) EXCEPT !.pc = "dead"]
    /\ UNCHANGED <<now, horizon, catalog, calls, lastCalled, kmap, events, xdp,
                   replicas, hpas, lastPatch, pump, upLog, downLog, recon, tasks>>

\* The patch to replicas = 0 returns an error: scale_down returns it, the unwrap of the
\* spawned task panics and the task ends.
SweepPatchFailed ==
    /\ sweep.pc = "patch"
    /\ sweep' = [SweepSleeping(0) EXCEPT !.pc = "dead"]
    /\ UNCHANGED <<now, horizon, catalog, calls, services, lastCalled, kmap, events, xdp,
                   replicas, hpas, lastPatch, pump, upLog, downLog, recon, tasks>>

FailHorizon == 2

InitFail ==
    \E reps \in [{IP_P, IP_C} -> {0, 1}] :
        InitWith(ParentChild(<<"c">>, 1, 1, FALSE, FALSE), {IP_P, IP_C}, reps, << >>, FailHorizon)

NextFail ==
    \/ Tick
    \/ \E frame \in ServiceFrames : Classify(frame)
    \/ Sync
    \/ PumpStep
    \/ PumpPatchFailed
    \/ PumpReadFailed
    \/ SweepStart
    \/ SweepPatched
    \/ SweepPatchFailed

SpecFail == InitFail /\ [][NextFail]_vars

\* C15 as stated: an error of the cluster client ends the tick of the sweep and no more:
\* the sweep task is at an await of its loop or asleep until its next tick, it is never
\* ended.
SweepRunsAgain == sweep.pc # "dead"

\* a patch of the traversal has returned an error
ScaleUpEntryFailed ==
    /\ pump.pc = "patch"
    /\ pump' # pump
    /\ upLog' = upLog

\* C16: when the patch of one entry of a scale_up traversal fails, no workload is
\* patched, the registry is left as it is (the entry that failed keeps its
\* backend_available) and the traversal goes on to the patch of the next entry of
\* to_scale, or returns Ok after the last one; and a patch that succeeds sets the
\* replicas of its workload to 1 and marks its entry available.
ScaleUpGoesOnAfterFailure ==
    [][/\ ScaleUpEntryFailed =>
            /\ services' = services
            /\ replicas' = replicas
            /\ lastPatch' = lastPatch
            /\ IF pump.idx < Len(pump.to_scale)
               THEN /\ pump'.pc = "patch"
                    /\ pump'.to_scale = pump.to_scale
                    /\ pump'.idx = pump.idx + 1
                    /\ Unwrap(pump'.clone).backend_available
               ELSE /\ pump'.pc = "idle"
                    /\ pump'.res = <<"Ok">>
       /\ (pump.pc = "patch" /\ upLog' # upLog) =>
            LET ip == pump.to_scale[pump.idx].ip
            IN  /\ replicas'[Workload(services[ip])] = 1
                /\ services'[ip].backend_available]_vars

\* a call for cold P with cold C has returned Ok: the patch of C failed and C is as it
\* was, the patch of P was made after it and P is available
ParentUpChildFailed ==
    /\ pump.pc = "idle"
    /\ pump.res = <<"Ok">>
    /\ upLog = <<[ip |-> IP_P, prio |-> 10]>>
    /\ lastPatch[Workload(services[IP_C])] = None
    /\ replicas[Workload(services[IP_C])] = 0
    /\ ~services[IP_C].backend_available
    /\ services[IP_P].backend_available
    /\ replicas[Workload(services[IP_P])] = 1

\* C17 as stated: a read error does not end the reader task.
ReaderNeverTerminates == pump.pc # "dead"

(***************************************************************************)
(* The registry mutex.  A task takes the guard of WATCHED_SERVICES with    *)
(* lock() and gives it back where the binding of the guard goes out of     *)
(* scope.  For every suspension point the sequences below are the          *)
(* operations on the guard that the task has made since its last           *)
(* suspension point, in the order of the code.                             *)
(***************************************************************************)
RECURSIVE HeldAfter(_, _)
HeldAfter(ops, held) ==
    IF ops = << >> THEN held
    ELSE HeldAfter(Tail(ops), IF Head(ops) = "lock" THEN held + 1 ELSE held - 1)

RECURSIVE Repeat(_, _)
Repeat(ops, n) == IF n = 0 THEN << >> ELSE ops \o Repeat(ops, n - 1)

\* process_packet: the block that stamps the entries
ProcessPacketOps == <<"lock", "unlock">>

\* find_service_ip_by_target: the guard lives to the end of the function, which has no await
FindOps == <<"lock", "unlock">>

\* scale_up: the clone of the entry, and for every target the search and the clone of
\* the entry found
ScaleUpOps(svc) ==
    <<"lock", "unlock">>
    \o Repeat(FindOps \o <<"lock", "unlock">>, Len(svc.dependencies) + Len(svc.dependents))

\* scale_service_by_ip: the block of the clone, the block of the write-back
ScaleServiceCloneOps == <<"lock", "unlock">>
ScaleServiceWriteOps == <<"lock", "unlock">>

\* mutant of scale_down: the guard of the snapshot is bound in the body of the loop
SnapshotOpsHeld == <<"lock">>

\* scale_down: the block of the snapshot, the block of the write-back
SnapshotOps == <<"lock", "unlock">>
SweepWriteOps == <<"lock", "unlock">>

\* the wrappers of the suspension controller: the block of the clone, and the guard
\* bound in a match arm for the insert
WrapperCloneOps == <<"lock", "unlock">>
WrapperInsertOps == <<"lock", "unlock">>

\* process_resource and update_workload_status: one block each, after thread::sleep
ProcessResourceOps == <<"lock", "unlock">>
RegisterOps == <<"lock", "unlock">>

\* the reader task: at the patch of the first entry it has run process_packet and
\* scale_up, at the patch of a later entry the clone alone; at the sleep of 500 ms the
\* write-back; at the read of the channel process_packet or nothing
PumpOps(p) ==
    CASE p.pc = "patch" ->
            IF p.idx = 1
            THEN ProcessPacketOps \o ScaleUpOps(Unwrap(p.clone)) \o ScaleServiceCloneOps
            ELSE ScaleServiceCloneOps
      [] p.pc = "sleep" -> ScaleServiceWriteOps
      [] OTHER -> ProcessPacketOps

\* the sweep: at the get of an autoscaler it has taken the snapshot, or written an entry
\* back, and cloned in the wrapper; at the delete nothing; at the patch the snapshot, or
\* the insert of the wrapper; at the sleep the snapshot or the write-back
SweepOps(sw) ==
    CASE sw.pc \in {"o_get", "d_get"} -> SnapshotOps \o SweepWriteOps \o WrapperCloneOps
      [] sw.pc \in {"o_del", "d_del"} -> << >>
      [] sw.pc = "patch" -> SnapshotOps \o WrapperInsertOps
      [] OTHER -> SnapshotOps \o SweepWriteOps

\* a recreation task: at the get it has cloned in the wrapper, if it runs one; at the
\* other awaits nothing
TaskOps(task) ==
    IF task.pc = "get" /\ task.wrapper THEN WrapperCloneOps ELSE << >>

\* the reconciler: at the next event of the stream it has run one of the two handlers;
\* in their sleeps nothing
ReconOps(r) ==
    IF r.pc = "idle" THEN ProcessResourceOps \o RegisterOps ELSE << >>

TwinHorizon == 2

\* the targets P may name as its dependency: a name, a cluster IP, a namespace/name
TwinTargets == {<<"c">>, <<IP_C>>, <<"ns2", "c">>}

Twins(target, hpaC) ==
    (IP_P :> Ann("deployment", "p", 1, <<target>>, << >>, Some(10), FALSE))
    @@ (IP_C :> Ann("statefulset", "c", 1, << >>, <<<<"p">>>>, Some(95), hpaC))
    @@ (IP_X :> [Ann("deployment", "c", 1, << >>, << >>, Some(95), hpaC) EXCEPT !.namespace = "ns2"])

TwinFrames == {Frame(60, "Ipv4", IP_P), Frame(60, "Ipv4", IP_C)}

InitTwins ==
    \E target \in TwinTargets, hpaC \in BOOLEAN, reps \in [{IP_P, IP_C, IP_X} -> {0, 1}] :
        InitWith(Twins(target, hpaC), {IP_P, IP_C, IP_X}, reps, << >>, TwinHorizon)

NextTwins ==
    \/ Tick
    \/ \E frame \in TwinFrames : Classify(frame)
    \/ Sync
    \/ PumpStep

SpecTwins == InitTwins /\ [][NextTwins]_vars

\* the entries a target stands for: the entry whose key it is, else every entry of
\* that name, or of that namespace and name
Namesakes(reg, target) ==
    IF Len(target) = 1 /\ target[1] \in DOMAIN reg THEN {target[1]}
    ELSE IF Len(target) = 1 THEN {q \in DOMAIN reg : reg[q].name = target[1]}
    ELSE IF Len(target) = 2
         THEN {q \in DOMAIN reg : reg[q].namespace = target[1] /\ reg[q].name = target[2]}
         ELSE {}

\* the entries the dependencies and the dependents of the entry ip stand for
Related(reg, ip) ==
    UNION {Namesakes(reg, reg[ip].dependencies[i]) : i \in 1..Len(reg[ip].dependencies)}
    \cup UNION {Namesakes(reg, reg[ip].dependents[i]) : i \in 1..Len(reg[ip].dependents)}

\* C19 as stated: when scale_up has built its list and is at its first patch, the list
\* holds the triggering entry and every unavailable entry that one of its dependencies
\* or dependents targets stands for, so that each of them is patched to replicas = 1.
AllMatchesScaled ==
    (pump.pc = "patch" /\ pump.idx = 1) =>
        \A q \in {pump.ip} \cup {r \in Related(services, pump.ip) : ~services[r].backend_available} :
            \E i \in 1..Len(pump.to_scale) : pump.to_scale[i].ip = q


\* process_packet takes the record of a registered address that is not a loopback one
PacketFor(ip) ==
    /\ pump.pc = "idle"
    /\ events # << >>
    /\ events' = Tail(events)
    /\ ToText(FromU32(Head(events).ipv4_address)) = ip
    /\ ~IsLoopback(FromU32(Head(events).ipv4_address))
    /\ ip \in DOMAIN services

\* C20: when process_packet takes a record for a registered address that is not a
\* loopback one, the entry of the address and every entry its dependencies and
\* dependents targets stand for (the entry whose key the target is, else every entry of
\* that name or namespace/name) have last_packet_time = the current time afterwards,
\* be they scaled down or autoscaled.
PacketStampsRelated ==
    [][\A ip \in DOMAIN services :
          PacketFor(ip) =>
              \A q \in DOMAIN services :
                  (q = ip \/ q \in Related(services, ip)) =>
                      services'[q].last_packet_time = now]_vars

\* a packet for P has just been taken at a time after 0: C and X, both named by the
\* dependency "c" of P, both scaled down and autoscaled, carry the time of the packet
ColdTwinsStamped ==
    /\ pump.pc = "patch"
    /\ pump.ip = IP_P
    /\ pump.idx = 1
    /\ now > 0
    /\ services[IP_P].dependencies = <<<<"c">>>>
    /\ services[IP_P].last_packet_time = now
    /\ \A q \in {IP_C, IP_X} :
          /\ services[q].hpa_enabled
          /\ ~services[q].backend_available
          /\ services[q].last_packet_time = now


(***************************************************************************)
(* Suspension: the sweep meets an autoscaled service, whose autoscaler     *)
(* may or may not exist and whose delete may fail.                         *)
(***************************************************************************)
\* delete_hpa: the delete returns an error.  The wrapper returns it, scale_down logs it
\* and goes on.
SweepHpaDeleteFailed ==
    /\ sweep.pc \in {"o_del", "d_del"}
    /\ sweep' = AfterDelete(sweep, services, now)
    /\ UNCHANGED <<now, horizon, catalog, calls, services, lastCalled, kmap, events, xdp,
                   replicas, hpas, lastPatch, pump, upLog, downLog, recon, tasks>>

SuspendHorizon == 3

InitSuspend ==
    \E reps \in [{IP_P} -> {0, 1}], hp \in HpaChoices(Solo(0, TRUE)) :
        InitWith(Solo(0, TRUE), {IP_P}, reps, hp, SuspendHorizon)

NextSuspend ==
    \/ Tick
    \/ Classify(Frame(60, "Ipv4", IP_P))
    \/ Sync
    \/ PumpStep
    \/ SweepStep
    \/ SweepHpaDeleteFailed

SpecSuspend == InitSuspend /\ [][NextSuspend]_vars

\* the sweep comes to the patch of an entry: from another entry, or from the call of
\* delete_hpa_for_service for this one
SweepComesToPatch ==
    /\ sweep'.pc = "patch"
    /\ sweep.pc # "patch" \/ sweep.idx # sweep'.idx \/ sweep.list # sweep'.list

\* C21: the sweep comes to the replicas = 0 patch of an entry that its snapshot has
\* hpa_enabled and not hpa_deleted only when delete_hpa_for_service has been called for
\* it and has returned: either delete_hpa has run (its get found no object, or its
\* delete returned), or the registry no longer had the entry as an autoscaler to
\* delete; no patch is issued while the delete is under way; and when the delete has
\* failed (the object is still there) the sweep is at the patch of that entry, which
\* it then issues.
DeleteBeforePatch ==
    [][/\ SweepComesToPatch =>
             LET e == sweep'.list[sweep'.idx]
             IN  (e.svc.hpa_enabled /\ ~e.svc.hpa_deleted) =>
                    \/ /\ sweep.pc \in {"d_get", "d_del"}
                       /\ sweep.list = sweep'.list
                       /\ sweep.idx = sweep'.idx
                    \/ e.ip \notin DOMAIN services'
                    \/ services'[e.ip].hpa_deleted
                    \/ ~services'[e.ip].hpa_enabled
       /\ sweep.pc \in {"d_get", "d_del"} => lastPatch' = lastPatch
       /\ (sweep.pc = "d_del" /\ sweep' # sweep /\ hpas' = hpas) =>
             /\ sweep'.pc = "patch"
             /\ sweep'.idx = sweep.idx
             /\ sweep'.list = sweep.list
       /\ (sweep.pc = "patch" /\ sweep' # sweep) =>
             /\ lastPatch'[Workload(sweep.list[sweep.idx].svc)] = Some(0)
             /\ replicas'[Workload(sweep.list[sweep.idx].svc)] = 0]_vars

\* the delete of the autoscaler of P failed and P was patched to 0 all the same: the
\* object is there, the entry is not marked, and the sweep has logged its patch
PatchedThoughDeleteFailed ==
    /\ downLog = <<[ip |-> IP_P, prio |-> 50]>>
    /\ lastPatch[Workload(services[IP_P])] = Some(0)
    /\ replicas[Workload(services[IP_P])] = 0
    /\ HpaKey(services[IP_P]) \in DOMAIN hpas
    /\ ~services[IP_P].hpa_deleted
    /\ ~services[IP_P].backend_available

\* C22: when the get of delete_hpa finds no object, delete_hpa_for_service stores the
\* entry with hpa_deleted = true, no autoscaler object is touched, and the sweep goes
\* on: to the replicas = 0 patch of the entry when the entry was idle, to the next
\* entry when it was cold already.
AbsentObjectCountsAsDeleted ==
    [][(/\ sweep.pc \in {"o_get", "d_get"}
        /\ sweep' # sweep
        /\ HpaKey(Unwrap(sweep.hclone)) \notin DOMAIN hpas) =>
            LET ip == sweep.list[sweep.idx].ip
            IN  /\ services'[ip].hpa_deleted
                /\ services'[ip] = [Unwrap(sweep.hclone) EXCEPT !.hpa_deleted = TRUE]
                /\ hpas' = hpas
                /\ sweep.pc = "d_get" =>
                      sweep'.pc = "patch" /\ sweep'.idx = sweep.idx /\ sweep'.list = sweep.list
                /\ sweep.pc = "o_get" =>
                      sweep'.pc # "patch" /\ (sweep'.pc = "sleep" \/ sweep'.idx > sweep.idx)]_vars

\* P was idle and its autoscaler absent: the sweep is at the patch of P, whose entry is
\* marked deleted, and there is no object
AbsentMarkedAtPatch ==
    /\ sweep.pc = "patch"
    /\ sweep.list[sweep.idx].ip = IP_P
    /\ services[IP_P].hpa_deleted
    /\ services[IP_P].backend_available
    /\ hpas = << >>
    /\ lastPatch[Workload(services[IP_P])] = None


(***************************************************************************)
(* Recreation: P is autoscaled and registered cold; a packet wakes it up,  *)
(* the sweep may scale it down again, and the recreation task runs when    *)
(* its 10 seconds are over.                                                *)
(***************************************************************************)
RecreateHorizon == 13
PacketUntil == 1
LongIdle == 20

InitRecreate ==
    \E sdt \in {0, LongIdle}, hp \in HpaChoices(Solo(0, TRUE)) :
        InitWith(Solo(sdt, TRUE), {IP_P}, [ip \in {IP_P} |-> 0], hp, RecreateHorizon)

\* the reader takes a record early enough for the recreation task to run
EarlyPumpStep ==
    \/ now <= PacketUntil /\ PumpPacket
    \/ PumpPatched
    \/ PumpNext

NextRecreate ==
    \/ Tick
    \/ RoundPacket
    \/ Sync
    \/ EarlyPumpStep
    \/ SweepStep
    \/ TaskStep

SpecRecreate ==
    /\ InitRecreate
    /\ [][NextRecreate]_vars
    /\ WF_vars(Tick)
    /\ WF_vars(EarlyPumpStep)
    /\ WF_vars(SweepStep)
    /\ WF_vars(TaskStep)


\* the workload of P and the key of its autoscaler
WorkloadP == Workload(catalog[IP_P])
HpaKeyP == HpaOf(catalog, IP_P)

\* a recreation task of P is asleep, and the clock of the model runs until it is done
RecreationPending ==
    \E task \in tasks :
        /\ task.ip = IP_P
        /\ task.wrapper
        /\ task.pc = "delay"
        /\ task.due + HPA_DELETE_WAIT_SECS <= horizon

\* C23: when scale_up has patched an hpa_enabled service to replicas = 1, a task for
\* that service is asleep until 10 seconds after the patch, and no such task calls
\* recreate_hpa_for_service before its time; and once P is patched up with its task
\* asleep, the autoscaler object of P comes to exist with the entry of P having
\* hpa_deleted = false, unless the sweep patches P to 0 again.
RecreatedAfterTenSeconds ==
    /\ [][(pump.pc = "patch" /\ pump' # pump /\ Unwrap(pump.clone).hpa_enabled) =>
             \E task \in tasks' :
                 /\ task.ip = pump.to_scale[pump.idx].ip
                 /\ task.pc = "delay"
                 /\ task.wrapper
                 /\ task.due = now + 10]_vars
    /\ [][\A task \in tasks :
             (task.wrapper /\ task.pc = "delay" /\ task \notin tasks') => now >= task.due]_vars
    /\ (RecreationPending /\ lastPatch[WorkloadP] = Some(1))
          ~> \/ HpaKeyP \in DOMAIN hpas /\ ~services[IP_P].hpa_deleted
             \/ lastPatch[WorkloadP] = Some(0)

\* P was woken up and never scaled down; its task has run: the autoscaler of P is
\* there and the entry is not marked deleted
RecreatedWhileUp ==
    /\ now >= 10
    /\ tasks = {}
    /\ lastPatch[WorkloadP] = Some(1)
    /\ downLog = << >>
    /\ services[IP_P].backend_available
    /\ ~services[IP_P].hpa_deleted
    /\ HpaKeyP \in DOMAIN hpas
    /\ hpas[HpaKeyP] = BuildHpaSpec(Unwrap(services[IP_P].hpa_config))

\* C24: a sweep that starts while the entry of P is hpa_enabled, not available and not
\* marked deleted calls delete_hpa for P; and from such an entry, with no recreation
\* task outstanding, the entry comes to have hpa_deleted = true with no autoscaler
\* object, unless P is scaled up first.
OrphanSuspended ==
    /\ [][(/\ sweep.pc = "sleep"
           /\ sweep' # sweep
           /\ services[IP_P].hpa_enabled
           /\ ~services[IP_P].backend_available
           /\ ~services[IP_P].hpa_deleted) =>
              /\ sweep'.pc = "o_get"
              /\ sweep'.list[sweep'.idx].ip = IP_P]_vars
    /\ (/\ services[IP_P].hpa_enabled
        /\ ~services[IP_P].backend_available
        /\ ~services[IP_P].hpa_deleted
        /\ tasks = {}
        /\ now < horizon)
          ~> \/ services[IP_P].hpa_deleted /\ HpaKeyP \notin DOMAIN hpas
             \/ services[IP_P].backend_available

\* P was registered cold with its autoscaler there, and was never patched: the sweep
\* has captured and deleted the autoscaler and marked the entry
OrphanDeleted ==
    /\ lastPatch[WorkloadP] = None
    /\ ~services[IP_P].backend_available
    /\ services[IP_P].hpa_deleted
    /\ services[IP_P].hpa_config = Some(CaptureConfig(UserHpaSpec))
    /\ hpas = << >>

\* C25: P was scaled up and its recreation task is asleep; the sweep has patched P to
\* 0 again and there is no autoscaler object.  The task runs all the same: when its
\* sleep is over it calls recreate_hpa though the entry is not available, and the
\* autoscaler object of P comes to exist while the last patch of P is the one to 0.
RecreatedOnZeroReplicas ==
    /\ [][\A task \in tasks :
             (/\ task.wrapper
              /\ task.pc = "delay"
              /\ task \notin tasks'
              /\ ~services[task.ip].backend_available) =>
                 \E started \in tasks' :
                     /\ started.ip = task.ip
                     /\ started.pc = "get"
                     /\ started.clone = Some(services[task.ip])]_vars
    /\ (/\ RecreationPending
        /\ lastPatch[WorkloadP] = Some(0)
        /\ ~services[IP_P].backend_available
        /\ HpaKeyP \notin DOMAIN hpas)
          ~> (HpaKeyP \in DOMAIN hpas /\ lastPatch[WorkloadP] = Some(0))

\* the task of P has run after the sweep scaled P down again: P has 0 replicas and an
\* autoscaler
AutoscalerOnZeroReplicas ==
    /\ now >= 10
    /\ tasks = {}
    /\ lastPatch[WorkloadP] = Some(0)
    /\ replicas[WorkloadP] = 0
    /\ ~services[IP_P].backend_available
    /\ HpaKeyP \in DOMAIN hpas


(***************************************************************************)
(* The reconciler and the annotations of a service event.  An annotation   *)
(* is a text, or is not there.                                             *)
(***************************************************************************)
\* workload_ref.split('/') on the reference texts of the model
SplitSlash(s) ==
    CASE s = "deployment/p" -> <<"deployment", "p">>
      [] s = "statefulset/c" -> <<"statefulset", "c">>
      [] s = "deployment/ns1/p" -> <<"deployment", "ns1", "p">>
      [] s = "daemonset/foo" -> <<"daemonset", "foo">>
      [] s = "deployment" -> <<"deployment">>

\* parse::<i64>() on the scale-down-time texts of the model
ParseI64(s) ==
    CASE s = "0" -> Some(0)
      [] s = "1" -> Some(1)
      [] s = "abc" -> None
      [] s = "" -> None

\* kube_event_watcher, a service event up to the first await: what becomes of it
ServiceEventOutcome(ev) ==
    IF ~IsSome(ev.reference) /\ ~IsSome(ev.sdt) THEN "continue"
    ELSE IF ~IsSome(ev.reference) THEN "panic"
    ELSE LET parts == SplitSlash(Unwrap(ev.reference))
         IN  IF Len(parts) \notin {2, 3} THEN "continue"
             ELSE IF ~IsSome(ev.sdt) THEN "panic"
             ELSE IF ~IsSome(ParseI64(Unwrap(ev.sdt))) THEN "error"
             ELSE IF parts[1] \in {"deployment", "statefulset"} THEN "get"
             ELSE "continue"

\* the workload a reference names for a service of namespace ns
ReferredWorkload(ev, ns) ==
    LET parts == SplitSlash(Unwrap(ev.reference))
    IN  IF Len(parts) = 2 THEN <<parts[1], ns, parts[2]>>
        ELSE <<parts[1], parts[2], parts[3]>>

\* the event carries the service cat has at its address
IsServiceOf(ev, cat) ==
    /\ ev.ip \in DOMAIN cat
    /\ ReferredWorkload(ev, cat[ev.ip].namespace) = Workload(cat[ev.ip])
    /\ ParseI64(Unwrap(ev.sdt)) = Some(cat[ev.ip].scale_down_time)

RefChoices == {None, Some("deployment/p"), Some("deployment/ns1/p"), Some("daemonset/foo"), Some("deployment")}
SdtChoices == {None, Some("1"), Some("abc"), Some("")}

\* the service events of the model: the services of the catalog, and services whose
\* annotations keep them from being registered
RawServices(cat) ==
    {ev \in [ip : {IP_P, IP_X}, reference : RefChoices, sdt : SdtChoices] :
        ServiceEventOutcome(ev) = "get" => IsServiceOf(ev, cat)}

\* A service event with the annotations it carries.  The event is passed over, or the
\* task panics on an unwrap, or kube_event_watcher returns an error which main
\* unwraps, or the workload is read and update_workload_status sleeps 2 seconds.
ReconServiceEvent(ev) ==
    /\ recon.pc = "idle"
    /\ LET out == ServiceEventOutcome(ev)
       IN  CASE out = "continue" ->
                  recon' = [pc |-> "idle", ip |-> ev.ip, replicas |-> 0, due |-> 0, ev |-> ev]
             [] out \in {"panic", "error"} ->
                  recon' = [pc |-> "dead", ip |-> ev.ip, replicas |-> 0, due |-> 0, ev |-> ev]
             [] out = "get" ->
                  /\ IsServiceOf(ev, catalog)
                  /\ recon' = [pc |-> "register", ip |-> ev.ip,
                               replicas |-> replicas[Workload(catalog[ev.ip])],
                               due |-> now + REGISTER_DELAY_SECS]
    /\ UNCHANGED <<now, horizon, catalog, calls, services, lastCalled, kmap, events, xdp,
                   replicas, hpas, lastPatch, pump, upLog, sweep, downLog, tasks>>

\* A deployment or stateful-set event for a workload that no registered service is
\* bound to: process_resource returns at once.
ReconUnbound(ip) ==
    /\ recon.pc = "idle"
    /\ ip \in DOMAIN catalog
    /\ ip \notin DOMAIN services
    /\ recon' = [pc |-> "idle", ip |-> ip, replicas |-> replicas[Workload(catalog[ip])], due |-> 0]
    /\ UNCHANGED <<now, horizon, catalog, calls, services, lastCalled, kmap, events, xdp,
                   replicas, hpas, lastPatch, pump, upLog, sweep, downLog, tasks>>

ReconHorizon == 2

InitRecon ==
    \E reps \in [{IP_P, IP_C} -> {0, 1}] :
        InitWith(ParentChild(<<"c">>, 1, 1, FALSE, FALSE), {IP_C}, reps, << >>, ReconHorizon)

NextRecon ==
    \/ Tick
    \/ \E frame \in ServiceFrames : Classify(frame)
    \/ Sync
    \/ PumpStep
    \/ \E ev \in RawServices(catalog) : ReconServiceEvent(ev)
    \/ ReconRegister
    \/ \E ip \in DOMAIN catalog : ReconEvent(ip)
    \/ ReconApply
    \/ \E ip \in DOMAIN catalog : ReconUnbound(ip)

SpecRecon == InitRecon /\ [][NextRecon]_vars

\* the step is a service event that did not lead to the read of a workload
ServiceEventOver ==
    /\ recon.pc = "idle"
    /\ recon' # recon
    /\ "ev" \in DOMAIN recon'

\* C26 as stated: a service event whose service lacks the reference annotation or the
\* scale-down-time annotation, be it one of them or both, is passed over: nothing is
\* registered and the reconciler is ready for the next event.
ServiceLackingAnnotationSkipped ==
    [][(ServiceEventOver /\ (~IsSome(recon'.ev.reference) \/ ~IsSome(recon'.ev.sdt))) =>
          /\ recon'.pc = "idle"
          /\ services' = services]_vars

\* C27 as stated: a service event whose reference annotation does not split into two or
\* three parts, or names a kind that is neither deployment nor statefulset, registers
\* nothing, adds nothing to the kernel map, and leaves the reconciler ready for the next
\* event.
BadReferenceSkipped ==
    [][(/\ ServiceEventOver
        /\ IsSome(recon'.ev.reference)
        /\ LET parts == SplitSlash(Unwrap(recon'.ev.reference))
           IN  Len(parts) \notin {2, 3} \/ parts[1] \notin {"deployment", "statefulset"}) =>
          /\ recon'.pc = "idle"
          /\ services' = services
          /\ kmap' = kmap]_vars

\* C28 as stated: a service event whose scale-down-time annotation is there and does
\* not parse as an integer registers nothing and leaves the reconciler ready for the
\* next event.
BadScaleDownTimeFailsEventOnly ==
    [][(/\ ServiceEventOver
        /\ IsSome(recon'.ev.sdt)
        /\ ~IsSome(ParseI64(Unwrap(recon'.ev.sdt)))) =>
          /\ recon'.pc = "idle"
          /\ services' = services]_vars

\* C29: a deployment or stateful-set event for the workload of a registered service
\* makes the reconciler wait 2 seconds with the replicas of the event, and then set
\* backend_available of that entry to (replicas >= 1), no other field of the entry and
\* no other entry being changed; an event for a workload no registered service is bound
\* to changes nothing in the registry.
WorkloadEventPublished ==
    [][/\ (recon.pc = "idle" /\ recon'.pc = "stabilize") =>
             /\ recon'.ip \in DOMAIN services
             /\ recon'.replicas = replicas[Workload(services[recon'.ip])]
             /\ recon'.due = now + 2
             /\ services' = services
       /\ (recon.pc = "stabilize" /\ recon' # recon) =>
             /\ now >= recon.due
             /\ services' = [ip \in DOMAIN services |->
                               IF ip = recon.ip
                               THEN [services[ip] EXCEPT !.backend_available = (recon.replicas >= 1)]
                               ELSE services[ip]]
       /\ (recon.pc = "idle" /\ recon'.pc = "idle" /\ recon' # recon /\ "ev" \notin DOMAIN recon') =>
             services' = services]_vars

\* an event for the workload of C came with 0 replicas; scale_up patched C to 1 while
\* the reconciler waited; the reconciler then published backend_available = false
ZeroReplicasPublished ==
    /\ recon = ReconIdle
    /\ replicas[Workload(services[IP_C])] = 1
    /\ lastPatch[Workload(services[IP_C])] = Some(1)
    /\ ~services[IP_C].backend_available
    /\ Len(upLog) > 0


(***************************************************************************)
(* Priorities: P is registered, and registered again, with annotations of  *)
(* every shape.                                                            *)
(***************************************************************************)
PriorityHorizon == 2

\* the lists a dependencies or dependents annotation may give
TargetLists == {<< >>, <<<<"c">>>>, <<<<"c">>, <<"ns2", "x">>>>}

\* the scaling-priority annotation: none or one that does not parse, or an integer
PriorityChoices == {None, Some(0), Some(7), Some(-3), Some(120)}

InitPriority ==
    \E deps \in TargetLists, dpts \in TargetLists, prio \in PriorityChoices, reps \in {0, 1} :
        InitWith((IP_P :> Ann("deployment", "p", 1, deps, dpts, prio, FALSE)),
                 {IP_P}, [ip \in {IP_P} |-> reps], << >>, PriorityHorizon)

NextPriority ==
    \/ Tick
    \/ ReconService(IP_P)
    \/ ReconRegister

SpecPriority == InitPriority /\ [][NextPriority]_vars

\* C30: the scaling_priority of the entry of P is the integer of the scaling-priority
\* annotation of P when there is one; else 10 + 5 * the number of its dependencies
\* when it has any; else 90 + 5 * the number of its dependents when it has any; else
\* 50; and a later registration of P with the same annotations gives the same value.
PriorityFromAnnotations ==
    /\ [](LET ann == catalog[IP_P]
              n == Len(ann.dependencies)
              m == Len(ann.dependents)
          IN  services[IP_P].scaling_priority =
                 IF ann.scaling_priority # << >> THEN ann.scaling_priority[1]
                 ELSE IF n >= 1 THEN 10 + 5 * n
                 ELSE IF m >= 1 THEN 90 + 5 * m
                 ELSE 50)
    /\ [][recon.pc = "register" =>
             services'[IP_P].scaling_priority = services[IP_P].scaling_priority]_vars

\* P has two dependencies, two dependents and no priority annotation; it has been
\* registered a second time, and its priority is 20
RegisteredAgainWithTwenty ==
    /\ catalog[IP_P].scaling_priority = None
    /\ Len(catalog[IP_P].dependencies) = 2
    /\ Len(catalog[IP_P].dependents) = 2
    /\ services[IP_P].last_packet_time = 2
    /\ recon = ReconIdle
    /\ services[IP_P].scaling_priority = 20


\* C31 as stated: the scaling_priority of every registry entry is an integer from 0 to
\* 255.
PriorityInByteRange ==
    \A ip \in DOMAIN services :
        /\ services[ip].scaling_priority \in Int
        /\ services[ip].scaling_priority >= 0
        /\ services[ip].scaling_priority <= 255


\* C32: no step of the reconciler, of process_packet, of scale_up, of the sweep or of
\* the autoscaler wrappers takes a key out of the registry.
RegistryKeysOnlyGrow ==
    [][DOMAIN services \subseteq DOMAIN services']_vars

\* P has been scaled down by the sweep, its autoscaler deleted by the wrapper, and
\* registered again by the reconciler: its entry is in the registry
KeptThroughScaleDown ==
    /\ IP_P \in DOMAIN services
    /\ lastPatch[Workload(catalog[IP_P])] = Some(0)
    /\ services[IP_P].last_packet_time > 0
    /\ ~services[IP_P].backend_available
    /\ HpaOf(catalog, IP_P) \notin DOMAIN hpas
    /\ recon = ReconIdle
    /\ sweep.pc = "sleep"


\* C33: whenever the sweep patches a workload to replicas = 0, the entry of its
\* snapshot has backend_available = true and the time read for that entry minus its
\* last_packet_time is strictly greater than its scale_down_time; and while the sweep
\* is at an entry that is unavailable or idle for no more than scale_down_time, no
\* workload is patched to 0.
PatchOnlyStrictlyIdle ==
    [][LET e == sweep.list[sweep.idx]
       IN  /\ Len(downLog') = Len(downLog) + 1
              => /\ sweep.pc = "patch"
                 /\ downLog'[Len(downLog')].ip = e.ip
                 /\ e.svc.backend_available
                 /\ sweep.now - e.svc.last_packet_time > e.svc.scale_down_time
           /\ (\E w \in DOMAIN replicas : lastPatch'[w] = Some(0) /\ lastPatch'[w] # lastPatch[w])
              => Len(downLog') = Len(downLog) + 1]_vars

\* the sweep has patched a workload whose entry had been idle for one second more than
\* its scale_down_time
PatchedOneSecondPastThreshold ==
    /\ Len(downLog) >= 1
    /\ LET ip == downLog[1].ip
       IN  /\ ~services[ip].backend_available
           /\ lastPatch[Workload(services[ip])] = Some(0)
           /\ now - services[ip].last_packet_time = services[ip].scale_down_time + 1
           /\ sweep.pc = "sleep"
           /\ sweep.due = now + SWEEP_PERIOD_SECS


\* C39: when the patch to replicas = 0 of a sweep returns an error, the registry and the
\* kernel map are left as they are and the entry of the registry is still available;
\* from then on no entry that is available becomes unavailable, the value 1 of an
\* available entry in the kernel map stays 1, and every frame for an address whose value
\* is 1 is passed.
FailedScaleDownKeepsAvailable ==
    [][/\ (sweep.pc = "patch" /\ sweep'.pc = "dead")
          => /\ services' = services
             /\ kmap' = kmap
             /\ replicas' = replicas
             /\ services'[sweep.list[sweep.idx].ip].backend_available
       /\ sweep.pc = "dead"
          => /\ \A ip \in DOMAIN services :
                    services[ip].backend_available => services'[ip].backend_available
             /\ \A ip \in DOMAIN services :
                    (/\ services[ip].backend_available
                     /\ IpKey(ip) \in DOMAIN kmap
                     /\ kmap[IpKey(ip)] = 1)
                    => (IpKey(ip) \in DOMAIN kmap' /\ kmap'[IpKey(ip)] = 1)
             /\ \A ip \in DOMAIN services :
                    (/\ xdp' # xdp
                     /\ xdp'.frame = Some(Frame(60, "Ipv4", ip))
                     /\ IpKey(ip) \in DOMAIN kmap
                     /\ kmap[IpKey(ip)] = 1)
                    => xdp'.verdict = XDP_PASS]_vars

\* the patch of an idle P to replicas = 0 has failed: P is available in the registry,
\* its value in the kernel map is 1, and the last frame for it was passed
PassedAfterFailedScaleDown ==
    /\ sweep.pc = "dead"
    /\ services[IP_P].backend_available
    /\ now - services[IP_P].last_packet_time > services[IP_P].scale_down_time
    /\ lastPatch[Workload(catalog[IP_P])] = None
    /\ replicas[Workload(catalog[IP_P])] = 1
    /\ IpKey(IP_P) \in DOMAIN kmap
    /\ kmap[IpKey(IP_P)] = 1
    /\ xdp.frame = Some(Frame(60, "Ipv4", IP_P))
    /\ xdp.verdict = XDP_PASS
    /\ Len(events) >= 1
    /\ events[Len(events)] = PacketLog(IpKey(IP_P), 0)


\* C40: the step in which scale_up accepts a call for an IP records the time of the call
\* for that IP and makes no cluster call; a patch that returns an error leaves the
\* recorded times as they are, and no step takes a recorded time back; so a call for an
\* IP less than 5 seconds after an accepted one is rejected with the rate-limit error
\* and patches nothing, whether the patches of the accepted call succeeded or failed.
CallRecordedBeforeClusterCalls ==
    [][/\ \A ip \in DOMAIN calls' :
             Called(calls', ip).accepted # Called(calls, ip).accepted
             => /\ ip \in DOMAIN lastCalled'
                /\ lastCalled'[ip] = now
                /\ replicas' = replicas
                /\ lastPatch' = lastPatch
                /\ hpas' = hpas
       /\ \A ip \in DOMAIN lastCalled :
             /\ ip \in DOMAIN lastCalled'
             /\ lastCalled'[ip] >= lastCalled[ip]
       /\ (pump.pc = "patch" /\ pump' # pump /\ lastPatch' = lastPatch)
             => lastCalled' = lastCalled
       /\ \A ip \in DOMAIN calls' :
             (/\ calls'[ip] # Called(calls, ip)
              /\ IsSome(Called(calls, ip).accepted)
              /\ now - Unwrap(Called(calls, ip).accepted) < RATE_LIMIT_SECS)
             => /\ calls'[ip].rejected = Some(now)
                /\ calls'[ip].accepted = Called(calls, ip).accepted
                /\ pump' = PumpIdle(RATE_LIMIT_MSG)
                /\ replicas' = replicas
                /\ lastPatch' = lastPatch]_vars

\* scale_up for a cold P was accepted and every patch of it failed; a later call for P
\* within 5 seconds has been rejected
RejectedAfterFailedScaleUp ==
    /\ IP_P \in DOMAIN calls
    /\ IsSome(calls[IP_P].accepted)
    /\ IsSome(calls[IP_P].rejected)
    /\ Unwrap(calls[IP_P].rejected) >= Unwrap(calls[IP_P].accepted)
    /\ upLog = << >>
    /\ \A w \in DOMAIN lastPatch : lastPatch[w] = None
    /\ replicas[Workload(catalog[IP_P])] = 0
    /\ ~services[IP_P].backend_available
    /\ pump = PumpIdle(RATE_LIMIT_MSG)
    /\ IP_C \notin DOMAIN calls


\* C36 as stated: a step in which delete_hpa_for_service or recreate_hpa_for_service
\* returns leaves every field of the entry other than hpa_deleted and hpa_config as the
\* registry had it just before, and leaves the other entries alone.
WrappersChangeOnlyHpaFields ==
    [][/\ (sweep.pc \in {"o_get", "d_get", "o_del", "d_del"} /\ sweep' # sweep)
          => LET ip == sweep.list[sweep.idx].ip
             IN  services' = [services EXCEPT ![ip].hpa_deleted = services'[ip].hpa_deleted,
                                              ![ip].hpa_config = services'[ip].hpa_config]
       /\ \A task \in tasks :
             (task.pc = "create" /\ task.wrapper /\ task \notin tasks')
             => services' = [services EXCEPT ![task.ip].hpa_deleted = services'[task.ip].hpa_deleted]]_vars



(***************************************************************************)
(* Cold start under traffic: P is autoscaled and registered cold, with a   *)
(* packet in the first second and packets from the twelfth second on for   *)
(* as long as the program runs.  Every cluster call succeeds, every task  *)
(* keeps running, and the reconciler handles no workload event after the   *)
(* registration.                                                           *)
(***************************************************************************)
StuckHorizon == 12
StuckIdle == 9
QuietUntil == 12

InitStuck ==
    InitWith(Solo(StuckIdle, TRUE), {IP_P}, [ip \in {IP_P} |-> 0], << >>, StuckHorizon)

\* a packet for P arrives
StuckPacket ==
    /\ (now = 0 /\ IP_P \notin DOMAIN lastCalled) \/ now >= QuietUntil
    /\ Classify(Frame(60, "Ipv4", IP_P))

\* no autoscaler object exists when the recreation task issues its get
StuckTaskStep == \E task \in tasks : TaskStart(task) \/ TaskGet(task) \/ TaskCreated(task)

NextStuck ==
    \/ Tick
    \/ StuckPacket
    \/ Sync
    \/ PumpStep
    \/ SweepStep
    \/ StuckTaskStep

SpecStuck ==
    /\ InitStuck
    /\ [][NextStuck]_vars
    /\ WF_vars(Tick)
    /\ WF_vars(StuckPacket)
    /\ WF_vars(Sync)
    /\ WF_vars(PumpStep)
    /\ WF_vars(SweepStep)
    /\ WF_vars(StuckTaskStep)

ChainHorizon == 1

Chain(depsX, dptsX) ==
    (IP_P :> Ann("deployment", "p", 1, <<<<"c">>>>, << >>, None, FALSE))
    @@ (IP_C :> Ann("statefulset", "c", 1, <<<<"x">>>>, << >>, None, FALSE))
    @@ (IP_X :> Ann("deployment", "x", 1, depsX, dptsX, None, FALSE))

ChainEnds == {<< << >>, <<<<"c">>>> >>, << <<<<"p">>>>, << >> >>}

ChainFrames == {Frame(60, "Ipv4", IP_P), Frame(60, "Ipv4", IP_C), Frame(60, "Ipv4", IP_X)}

InitChain ==
    \E end \in ChainEnds, reps \in [{IP_P, IP_C, IP_X} -> {0, 1}] :
        InitWith(Chain(end[1], end[2]), {IP_P, IP_C, IP_X}, reps, << >>, ChainHorizon)

NextChain ==
    \/ Tick
    \/ \E frame \in ChainFrames : Classify(frame)
    \/ Sync
    \/ PumpStep

SpecChain == InitChain /\ [][NextChain]_vars

\* C34: when process_packet takes a record for a registered address, the only entries
\* whose last_packet_time changes are the entry of the address and the entries its own
\* dependencies and dependents targets stand for; an entry that only the lists of one of
\* those entries name keeps its last_packet_time, and the step ends on a cycle of
\* dependencies as on a chain.
PacketStampsOneHop ==
    [][\A ip \in DOMAIN services :
          PacketFor(ip) =>
              /\ pump'.pc \in {"idle", "patch"}
              /\ \A q \in DOMAIN services :
                    (q # ip /\ q \notin Related(services, ip)) =>
                        services'[q].last_packet_time = services[q].last_packet_time]_vars

\* a packet for P has been taken at time 1: P and its dependency C carry the time, and
\* X, which only C names and which in turn depends on P, does not
ChainEndNotStamped ==
    /\ now = 1
    /\ services[IP_P].last_packet_time = 1
    /\ services[IP_C].last_packet_time = 1
    /\ services[IP_X].last_packet_time = 0
    /\ IP_X \in Related(services, IP_C)
    /\ IP_X \notin Related(services, IP_P)
    /\ IP_P \in Related(services, IP_X)


\* C37 as stated: with the priorities calculated from the lists, scale_up patches a
\* dependency before the service that depends on it: no entry of the patches of a
\* scale_up call is one that a dependencies target of an earlier entry stands for.
DependenciesPatchedFirst ==
    \A i, j \in 1..Len(upLog) :
        (\E k \in 1..Len(services[upLog[i].ip].dependencies) :
            upLog[j].ip \in Namesakes(services, services[upLog[i].ip].dependencies[k]))
        => j < i



(***************************************************************************)
(* Calculated priorities: P has dependencies only and C has dependents     *)
(* only, neither has a priority annotation, and the reconciler registers   *)
(* them again and again.                                                   *)
(***************************************************************************)
AutoHorizon == 2
ManyTargets == 17

\* a list of n targets
TargetList(n) == [i \in 1..n |-> <<"ns1", "t">>]

InitAuto ==
    \E n \in {1, 2, ManyTargets}, m \in {1, 2}, reps \in [{IP_P, IP_C} -> {0, 1}] :
        InitWith((IP_P :> Ann("deployment", "p", 1, TargetList(n), << >>, None, FALSE))
                 @@ (IP_C :> Ann("statefulset", "c", 1, << >>, TargetList(m), None, FALSE)),
                 {IP_P, IP_C}, reps, << >>, AutoHorizon)

NextAuto ==
    \/ Tick
    \/ \E ip \in {IP_P, IP_C} : ReconService(ip)
    \/ ReconRegister

SpecAuto == InitAuto /\ [][NextAuto]_vars

\* C38 as stated: an entry with at least one dependency has a scaling_priority strictly
\* lower than that of every entry with no dependencies and at least one dependent.
ParentsBelowChildren ==
    \A p, c \in DOMAIN services :
        (/\ Len(services[p].dependencies) >= 1
         /\ Len(services[c].dependencies) = 0
         /\ Len(services[c].dependents) >= 1)
        => services[p].scaling_priority < services[c].scaling_priority

=============================================================================
